---- MODULE Spec2Model ----
(***************************************************************************)
(* A model of the Jupiter trading bot: the swap execution and confirmation *)
(* engine (utils/swap.ts, utils/transactionSender.ts), the retry wrapper,  *)
(* the availability probe and the buy-then-sell flow (trader.ts), the      *)
(* balance helpers (utils/tokens.ts) and the slippage policy               *)
(* (utils/slippage.ts, utils/config.ts).                                   *)
(*                                                                         *)
(* Every asynchronous call of the program is a "call" c \in Calls with its *)
(* own local state calls[c]; pc names the await the call is suspended at.  *)
(* One action is the continuation that runs when that await settles: it    *)
(* runs, as the event loop does, up to the next await, through every       *)
(* return, throw and catch in between.  The collaborators (quote service,  *)
(* swap-build service, ledger RPC, timers) answer nondeterministically.    *)
(*                                                                         *)
(* Specifications: SpecSwap (one executeSwapSafely call, slow ledger),     *)
(* Spec (one buyAndSellFlow, buy or sell call), SpecConc (two concurrent   *)
(* flows), SpecRetry (withRetry alone), SpecProbe (checkTokenAvailability) *)
(* and SpecSlippage (calculateSlippage).                                   *)
(***************************************************************************)
EXTENDS Integers, Sequences, FiniteSets, TLC

VARIABLES
    calls,      \* local state of each call (see InitCall)
    env,        \* process.env.BUY_AMOUNT_SOL
    height,     \* the ledger's block height
    tx,         \* ledger status of the transaction each call broadcast last
    bal,        \* ledger token balance of the wallet, per call's asset
    patience,   \* ms after which the ledger RPC stops answering "not yet"
    config,     \* slippage configuration read by getConfig()
    slippage    \* the last call of calculateSlippage and what it returned

vars == <<calls, env, height, tx, bal, patience, config, slippage>>

Calls == {1, 2}

----------------------------------------------------------------------------
(* Bounds of the model *)

MaxHeight == 1          \* block heights 0..MaxHeight
MaxPendingMs == 2000    \* patience of the flow specifications
MaxBal == 1             \* token balances 0..MaxBal
MaxCfg == 3             \* slippage configuration values -1..MaxCfg
MaxAttempts == 4        \* withRetry maxRetries 1..MaxAttempts in SpecRetry
MaxDecimals == 6        \* mint decimals 0..MaxDecimals in SpecDecimals

(* Program constants *)

TimeoutIn == 60000              \* transactionSender.ts:41
PollInterval == 2000            \* transactionSender.ts:82
SwapMaxRetries == 2             \* swap.ts:189
SellSwapMaxRetries == 3         \* swap.ts:271
BackoffBase == 500              \* swap.ts:214
BackoffCap == 2000              \* swap.ts:214
BuyMaxRetries == 3              \* trader.ts:254
SellMaxRetries == 5             \* trader.ts:286
RetryInitialDelay == 1000       \* trader.ts:255
SOL_DECIMALS == 9               \* api.ts:25
MaxRetryDurationMs == 60000     \* trader.ts:188
RetryIntervalMs == 1000         \* trader.ts:189

Unset == "undefined"    \* a missing environment variable / property

Min(a, b) == IF a < b THEN a ELSE b
Max(a, b) == IF a > b THEN a ELSE b

RECURSIVE Pow(_, _)
Pow(b, n) == IF n <= 0 THEN 1 ELSE b * Pow(b, n - 1)

(* How long an RPC or HTTP round trip may take: at once, or a long stall. *)
Latencies == {0, TimeoutIn}

----------------------------------------------------------------------------
(* Errors (the messages of the Error objects the code throws) *)

ErrNotConfirmed == "Transaction not confirmed"
ErrTxFailed == "Transaction failed"
ErrSimulation == "Transaction simulation failed"
ErrRpc == "rpc error"
ErrGateway == "gateway error"
ErrInvalidQuote == "Invalid quote received"
ErrInvalidSellQuote == "Invalid sell quote received"
ErrNoSellQuote == "Failed to get valid quote for selling"
ErrNoBalance == "No balance available"
ErrInvalidMint == "Invalid token mint address"
ErrUnknown == "failed with unknown error"
ErrNoKey == "PRIVATE_KEY is not set in .env"
NoError == "none"

----------------------------------------------------------------------------
(* Quotes: the response of jupiterQuoteApi.quoteGet.  outAmount is a       *)
(* string of the JSON response (or missing).                               *)

NullQuote == [isNull |-> TRUE, outAmount |-> Unset]
QuoteOf(out) == [isNull |-> FALSE, outAmount |-> out]
OutAmounts == {Unset, "", "0", "500000"}
Quotes == {NullQuote} \cup {QuoteOf(o) : o \in OutAmounts}

\* JavaScript truthiness of an optional string property
Falsy(s) == s \in {Unset, ""}

\* BigInt(s) for the decimal strings of OutAmounts
BigIntOf(s) == CASE s = "0" -> 0
                 [] s = "500000" -> 500000
                 [] OTHER -> 0

\* what the spec calls a valid quote: present, with outAmount > 0
QuotePositive(q) == ~q.isNull /\ ~Falsy(q.outAmount) /\ BigIntOf(q.outAmount) > 0

----------------------------------------------------------------------------
(* Local state of a call *)

InitCall ==
    [ entry |-> "none",          \* the exported function that was called
      pc |-> "idle",             \* the await the call is suspended at
      op |-> "none",             \* the operation executeSwapSafely runs for
      phase |-> "none",          \* buyAndSellFlow: "buy", "receipt", "hold", "sell"
      phases |-> << >>,          \* the phases the flow has entered, in order
      result |-> "pending",      \* "pending", "resolved", "rejected"
      error |-> NoError,         \* the error the call rejected with
      value |-> "none",          \* checkTokenAvailability's boolean result
      \* arguments and the asset
      walletSet |-> TRUE,        \* is process.env.PRIVATE_KEY set
      mintValid |-> TRUE,        \* does new PublicKey(tokenMint) succeed
      mintDecimals |-> 6,        \* the decimals of the mint on the ledger
      mintIsSol |-> FALSE,       \* tokenMint.toBase58() === SOL_MINT
      info |-> "none",           \* how getParsedAccountInfo settled
      decimals |-> -1,           \* the number getTokenDecimals returned
      hasOverride |-> FALSE,     \* buyAmountSOL !== undefined
      override |-> 0,            \* buyAmountSOL
      \* buyAndSellFlow
      originalBuyAmount |-> "",
      envBefore |-> Unset,       \* process.env.BUY_AMOUNT_SOL at the call
      configured |-> Unset,      \* BUY_AMOUNT_SOL as the operator configured it
      \* withRetry
      rMax |-> 0,
      rInit |-> 0,
      rExp |-> TRUE,
      rAttempt |-> 0,
      rLastError |-> NoError,
      rCalls |-> 0,              \* invocations of fn so far
      rWaits |-> << >>,          \* the delays waited so far
      opErrors |-> << >>,        \* the error of each failed invocation
      opResult |-> "none",       \* what the last successful invocation returned
      returned |-> 0,            \* buy / safeSellAndClose calls that returned
      \* buy / sell / safeSellAndClose
      quoteAmt |-> 0,            \* params.amount of the quote request in flight
      buyAmts |-> {},            \* params.amount of every buy quote request
      tokenBalance |-> 0,
      sellAmount |-> 0,          \* the amount argument of sell()
      \* waitForBalanceChange
      retries |-> 0,
      initialBalance |-> 0,
      initialLedger |-> 0,       \* the balance on the ledger at that first read
      currentBalance |-> 0,
      attempts |-> 0,
      delays |-> 0,              \* delay(delayMs) calls that have elapsed
      amount |-> 0,              \* the amount waitForBalanceChange returned
      \* executeSwapSafely
      quote |-> NullQuote,
      sAttempt |-> 0,
      sMax |-> 0,
      sLastError |-> NoError,
      \* executeSwap / simulateSwap, per attempt
      sim1 |-> "none",
      sim2 |-> "none",
      sent |-> 0,                \* broadcasts of the attempt
      \* transactionSenderAndConfirmationWaiter
      respAttempt |-> 0,         \* the attempt whose getSwapResponse gave swapResponse
      lvbh |-> 0,
      elapsed |-> 0,
      currentBlockHeight |-> 0,
      transactionResponse |-> "none",
      pollFailed |-> FALSE ]     \* a poll of this submitter call raised

----------------------------------------------------------------------------
(* transactionSenderAndConfirmationWaiter, executeSwap, executeSwapSafely  *)
(* as continuations on the local state s of a call.                        *)

SwapPcs == {"swap_post", "simulate", "exec_simulate", "send", "height0",
            "get_tx", "get_height", "wait", "catch_wait", "swap_delay"}
SubmitPcs == {"send", "height0", "get_tx", "get_height", "wait", "catch_wait"}
PollPcs == {"get_tx", "get_height", "wait", "catch_wait"}

\* time passes for the call: Date.now() moves on by d ms
Tick(s, d) == [s EXCEPT !.elapsed = Min(s.elapsed + d, TimeoutIn)]

\* the top-level promise of the call settles
Resolve(s) == [s EXCEPT !.pc = "done", !.result = "resolved"]
\* (trader.ts:317-319: checkAndBuy's catch logs the error and returns)
Reject(s, e) ==
    [s EXCEPT !.pc = "done", !.error = e,
              !.result = IF s.entry = "checkAndBuy" THEN "resolved"
                         ELSE "rejected"]

\* is the call inside buyAndSellFlow, called directly or by checkAndBuy
InFlow(s) == s.entry \in {"buyAndSellFlow", "checkAndBuy"}

(* withRetry (trader.ts:144-180) and the flow around it *)

\* trader.ts:268 (and the default of tokens.ts:96)
BalanceRetryCount == 5

\* a variant that goes from the buy straight to the hold delay
FlowAfterBuySkipsWatch(s) ==
    [s EXCEPT !.pc = "hold", !.phase = "hold",
              !.phases = Append(s.phases, "hold"),
              !.retries = BalanceRetryCount, !.attempts = 0]

\* trader.ts:263-271, tokens.ts:99-100: after the buy, the flow goes on to
\* waitForBalanceChange, up to its first await getTokenBalance
FlowAfterBuy(s) ==
    [s EXCEPT !.pc = "bal_initial", !.phase = "receipt",
              !.phases = Append(s.phases, "receipt"),
              !.retries = BalanceRetryCount, !.attempts = 0]

\* a variant that waits 2^attempt times the initial delay
RetryDelayDoubled(initialDelay, attempt, exponential) ==
    IF exponential THEN initialDelay * Pow(2, attempt) ELSE initialDelay

\* trader.ts:156
RetryDelay(initialDelay, attempt, exponential) ==
    IF exponential THEN initialDelay * Pow(2, attempt - 1) ELSE initialDelay

\* a variant that goes on to the next attempt after a success
RetryReturnGoesOn(s) ==
    IF InFlow(s) /\ s.phase = "buy" THEN FlowAfterBuy(s)
    ELSE IF s.entry = "withRetry" /\ s.rAttempt < s.rMax
    THEN [s EXCEPT !.pc = "retry_delay"]
    ELSE IF s.entry = "withRetry" THEN Resolve([s EXCEPT !.value = s.opResult])
    ELSE Resolve(s)

\* trader.ts:160-162, 257-271, 290: fn() resolved, withRetry returns its
\* result
RetryReturn(s) ==
    IF InFlow(s) /\ s.phase = "buy" THEN FlowAfterBuy(s)
    ELSE IF s.entry = "withRetry" THEN Resolve([s EXCEPT !.value = s.opResult])
    ELSE Resolve(s)

\* a variant that rejects with a generic error
RetryThrowUnknown(s) == Reject(s, ErrUnknown)

\* a variant whose flow goes on after a buy that failed on every attempt
RetryThrowSwallowed(s) ==
    IF InFlow(s) /\ s.phase = "buy" THEN FlowAfterBuy(s)
    ELSE Reject(s, IF s.rLastError = NoError THEN ErrUnknown ELSE s.rLastError)

\* trader.ts:178-179, 258-261, 291-299: every attempt failed; the flow's
\* catch blocks log and rethrow
RetryThrow(s) ==
    Reject(s, IF s.rLastError = NoError THEN ErrUnknown ELSE s.rLastError)

\* trader.ts:163-176: fn() rejected with e
RetryCatch(s, e) ==
    LET t == [s EXCEPT !.rLastError = e,
                       !.opErrors = IF s.entry = "withRetry"
                                    THEN Append(s.opErrors, e)
                                    ELSE s.opErrors] IN
    IF s.rAttempt < s.rMax
    THEN [t EXCEPT !.pc = "retry_delay",
                   !.rWaits = Append(s.rWaits,
                                     RetryDelay(s.rInit, s.rAttempt, s.rExp))]
    ELSE RetryThrow(t)

\* the frames of buy / safeSellAndClose and of the executeSwapSafely,
\* executeSwap and submitter calls below them are gone: their locals with them
PopOp(s) ==
    [s EXCEPT !.op = "none", !.quoteAmt = 0, !.tokenBalance = 0,
              !.quote = NullQuote, !.sAttempt = 0, !.sMax = 0,
              !.sLastError = NoError, !.sim1 = "none", !.sim2 = "none",
              !.sent = 0, !.respAttempt = 0, !.lvbh = 0, !.elapsed = 0,
              !.currentBlockHeight = 0, !.transactionResponse = "none",
              !.pollFailed = FALSE]

\* buy, sell or safeSellAndClose returns / throws to its caller: withRetry
\* inside buyAndSellFlow, else the caller of the exported function
OpReturn(s) ==
    IF InFlow(s)
    THEN RetryReturn([PopOp(s) EXCEPT !.returned = s.returned + 1])
    ELSE Resolve(s)
OpThrow(s, e) ==
    IF InFlow(s) THEN RetryCatch(PopOp(s), e) ELSE Reject(s, e)

\* executeSwapSafely returns / throws to its caller (trader.ts:71-82,
\* 128-132, swap.ts:271-276: the callers' catch blocks log and rethrow)
SafelyReturn(s) ==
    IF s.op = "executeSwapSafely" THEN Resolve(s) ELSE OpReturn(s)
SafelyThrow(s, e) ==
    IF s.op = "executeSwapSafely" THEN Reject(s, e) ELSE OpThrow(s, e)

(* executeSwapSafely, executeSwap, simulateSwap (swap.ts) *)

\* swap.ts:214
SwapBackoff(attempt) == Min(BackoffBase * Pow(2, attempt), BackoffCap)

\* a variant whose later attempts use the swap response they already have
SwapAttemptReusesResponse(s, n) ==
    [s EXCEPT !.pc = IF s.respAttempt > 0 THEN "simulate" ELSE "swap_post",
              !.sAttempt = n, !.sim1 = "none",
              !.sim2 = "none", !.sent = 0, !.transactionResponse = "none",
              !.pollFailed = FALSE]

\* swap.ts:193-198: the start of an attempt, up to await getSwapResponse
SwapAttempt(s, n) ==
    [s EXCEPT !.pc = "swap_post", !.sAttempt = n, !.sim1 = "none",
              !.sim2 = "none", !.sent = 0, !.transactionResponse = "none",
              !.pollFailed = FALSE]

\* swap.ts:185-193
ExecuteSwapSafely(s, quote, maxRetries) ==
    IF 1 <= maxRetries
    THEN SwapAttempt([s EXCEPT !.quote = quote, !.sMax = maxRetries,
                               !.sLastError = NoError], 1)
    ELSE SafelyThrow([s EXCEPT !.quote = quote, !.sMax = maxRetries,
                               !.sLastError = NoError], ErrUnknown)

\* a variant whose catch starts another attempt whatever the count
SwapCatchAlwaysRetries(s, e) ==
    [s EXCEPT !.sLastError = e, !.pc = "swap_delay"]

\* swap.ts:208-221: the catch of an attempt
SwapCatch(s, e) ==
    LET t == [s EXCEPT !.sLastError = e] IN
    IF s.sAttempt < s.sMax
    THEN [t EXCEPT !.pc = "swap_delay"]
    ELSE SafelyThrow(t, e)

\* swap.ts:168-172 (simulateSwap): does a simulation result abort the attempt
SimulationRejects(r) == r = "err"

\* a variant that broadcasts whatever the simulation said
ExecSimulationIgnored(r) == FALSE

\* swap.ts:53-57 (executeSwap): does a simulation result abort the attempt
ExecSimulationRejects(r) == r = "err"

\* a variant that takes a missing confirmation for a success
ExecuteSwapResultUnconfirmed(s, resp) ==
    IF resp = "err" THEN SwapCatch(s, ErrTxFailed)
    ELSE SafelyReturn(s)

\* a variant that takes every response for a success
ExecuteSwapResultUnchecked(s, resp) ==
    IF resp = "null" THEN SwapCatch(s, ErrNotConfirmed)
    ELSE SafelyReturn(s)

\* swap.ts:73-83: executeSwap after the submitter returned resp
ExecuteSwapResult(s, resp) ==
    IF resp = "null" THEN SwapCatch(s, ErrNotConfirmed)
    ELSE IF resp = "err" THEN SwapCatch(s, ErrTxFailed)
    ELSE SafelyReturn(s)

\* transactionSender.ts:71,78,94: the submitter returns resp
SubmitReturn(s, resp) ==
    ExecuteSwapResult([s EXCEPT !.transactionResponse = resp], resp)

\* a variant whose loop has no wall-clock bound
SubmitLoopNoTimeout(s) == [s EXCEPT !.pc = "get_tx"]

\* a variant whose loop sends the transaction again before each poll
SubmitLoopResend(s) ==
    IF s.elapsed < TimeoutIn
    THEN [s EXCEPT !.pc = "send"]
    ELSE SubmitReturn(s, "null")

\* transactionSender.ts:62: the loop condition, then line 65 or line 94
\* (done is never set, and transactionResponse is null at the loop top)
SubmitLoop(s) ==
    IF s.elapsed < TimeoutIn
    THEN [s EXCEPT !.pc = "get_tx"]
    ELSE SubmitReturn(s, "null")

\* a variant for which the last valid block is already too late
SubmitExpiredEarly(h, lastValid) == h >= lastValid

\* a variant that gives the transaction one more block
SubmitExpiredLate(h, lastValid) == h > lastValid + 1

\* transactionSender.ts:76
SubmitExpired(h, lastValid) == h > lastValid

\* a variant without the try/catch around the poll
AfterGetTransactionUncaught(s, r) ==
    IF r = "raise" THEN SwapCatch(s, ErrRpc)
    ELSE IF r = "null" THEN [s EXCEPT !.pc = "get_height",
                                      !.transactionResponse = "null"]
    ELSE SubmitReturn(s, r)

\* transactionSender.ts:65-72, 83-86: getTransaction settled with r
AfterGetTransaction(s, r) ==
    IF r = "raise" THEN [s EXCEPT !.pc = "catch_wait", !.pollFailed = TRUE]
    ELSE IF r = "null" THEN [s EXCEPT !.pc = "get_height",
                                      !.transactionResponse = "null"]
    ELSE SubmitReturn(s, r)

\* transactionSender.ts:75-82, 83-86: getBlockHeight settled (raised, or h)
AfterGetBlockHeight(s, raised, h) ==
    IF raised THEN [s EXCEPT !.pc = "catch_wait", !.pollFailed = TRUE]
    ELSE LET t == [s EXCEPT !.currentBlockHeight = h] IN
         IF SubmitExpired(h, s.lvbh) THEN SubmitReturn(t, "null")
         ELSE [t EXCEPT !.pc = "wait"]

----------------------------------------------------------------------------
(* buy, sell (trader.ts), safeSellAndClose (swap.ts), getTokenDecimals and *)
(* waitForBalanceChange (tokens.ts), buyAndSellFlow (trader.ts)            *)

\* the values of process.env.BUY_AMOUNT_SOL and of buyAmountSOL
EnvAmounts == {Unset, "", "1", "2"}
Overrides == {1, 2}

\* Number.prototype.toString for the amounts of Overrides
NumberToString(n) == CASE n = 1 -> "1" [] n = 2 -> "2" [] OTHER -> "0"

\* parseFloat for the strings of EnvAmounts
ParseFloat(str) == CASE str = "1" -> 1 [] str = "2" -> 2 [] OTHER -> 0

\* api.ts:68-70
ToLamports(amount, decimals) == amount * Pow(10, decimals)

\* api.ts:79: process.env.BUY_AMOUNT_SOL || ""
ConfigBuyAmount(e) == IF Falsy(e) THEN "" ELSE e

\* trader.ts:31-32: the amount buy() asks a quote for, read from the
\* environment at the start of each buy
BuyAmountLamports(e) ==
    ToLamports(ParseFloat(IF Falsy(ConfigBuyAmount(e)) THEN "0"
                          ELSE ConfigBuyAmount(e)), SOL_DECIMALS)

\* trader.ts:60 and trader.ts:118: the check of buy and of sell
QuoteRejected(q) ==
    q.isNull \/ Falsy(q.outAmount) \/ BigIntOf(q.outAmount) <= 0

\* swap.ts:264: the check of safeSellAndClose
SellQuoteRejected(q) == q.isNull \/ Falsy(q.outAmount)

\* tokens.ts:25-38: getParsedAccountInfo settled (raised, or the mint's
\* decimals d)
GetTokenDecimals(raised, d) ==
    IF raised THEN 9
    ELSE IF d # 0 THEN d
    ELSE 9

\* the ways connection.getParsedAccountInfo(tokenMint) settles (tokens.ts:26):
\* it raises, its value is null, its data has no parsed info, or its data
\* has the parsed mint with its decimals
InfoOutcomes == {"raised", "null", "unparsed", "parsed"}

\* tokens.ts:19-26: getTokenDecimals up to await getParsedAccountInfo
GetTokenDecimalsCall(s) ==
    IF s.mintIsSol
    THEN [s EXCEPT !.pc = "done", !.result = "resolved",
                   !.decimals = SOL_DECIMALS]
    ELSE [s EXCEPT !.pc = "decimals_info"]

\* tokens.ts:26-38: getParsedAccountInfo settled as i
GetTokenDecimalsAfterInfo(s, i) ==
    [s EXCEPT !.pc = "done", !.result = "resolved", !.info = i,
              !.decimals = GetTokenDecimals(i # "parsed", s.mintDecimals)]

\* swap.ts:251
SellAmount(balance, decimals) == balance * Pow(10, decimals)

\* trader.ts:27-58: buy() up to await quoteGet
Buy(s, e) ==
    IF ~s.mintValid THEN OpThrow([s EXCEPT !.op = "buy"], ErrInvalidMint)
    ELSE [s EXCEPT !.op = "buy", !.pc = "buy_quote",
                   !.quoteAmt = BuyAmountLamports(e),
                   !.buyAmts = s.buyAmts \cup {BuyAmountLamports(e)}]

\* trader.ts:58-82: quoteGet settled (raised, or q)
BuyAfterQuote(s, raised, q) ==
    LET t == [s EXCEPT !.quoteAmt = 0] IN
    IF raised THEN OpThrow(t, ErrGateway)
    ELSE IF QuoteRejected(q) THEN OpThrow([t EXCEPT !.quote = q], ErrInvalidQuote)
    ELSE ExecuteSwapSafely(t, q, SwapMaxRetries)

\* trader.ts:92-104: sell() up to await getTokenDecimals
Sell(s) ==
    IF ~s.mintValid THEN Reject([s EXCEPT !.op = "sell"], ErrInvalidMint)
    ELSE [s EXCEPT !.op = "sell", !.pc = "msell_decimals"]

\* trader.ts:116-132: quoteGet settled (raised, or q)
SellAfterQuote(s, raised, q) ==
    LET t == [s EXCEPT !.quoteAmt = 0] IN
    IF raised THEN OpThrow(t, ErrGateway)
    ELSE IF QuoteRejected(q)
         THEN OpThrow([t EXCEPT !.quote = q], ErrInvalidSellQuote)
    ELSE ExecuteSwapSafely(t, q, SwapMaxRetries)

\* swap.ts:232-240: safeSellAndClose up to await getTokenBalance
SafeSellAndClose(s) == [s EXCEPT !.op = "safeSellAndClose", !.pc = "sell_balance"]

\* a variant that sells whatever the balance is
SafeSellAfterBalanceUnchecked(s, b) ==
    [s EXCEPT !.tokenBalance = b, !.pc = "sell_decimals"]

\* swap.ts:240-248: getTokenBalance settled with b
SafeSellAfterBalance(s, b) ==
    IF b <= 0 THEN OpThrow([s EXCEPT !.tokenBalance = b], ErrNoBalance)
    ELSE [s EXCEPT !.tokenBalance = b, !.pc = "sell_decimals"]

\* swap.ts:248-262: getTokenDecimals settled with decimals
SafeSellAfterDecimals(s, decimals) ==
    [s EXCEPT !.pc = "sell_quote",
              !.quoteAmt = SellAmount(s.tokenBalance, decimals)]

\* trader.ts:104-116: getTokenDecimals settled with decimals
SellAfterDecimals(s, decimals) ==
    [s EXCEPT !.pc = "msell_quote",
              !.quoteAmt = ToLamports(s.sellAmount, decimals)]

\* swap.ts:262-276: quoteGet settled (raised, or q)
SafeSellAfterQuote(s, raised, q) ==
    LET t == [s EXCEPT !.quoteAmt = 0] IN
    IF raised THEN OpThrow(t, ErrGateway)
    ELSE IF SellQuoteRejected(q)
         THEN OpThrow([t EXCEPT !.quote = q], ErrNoSellQuote)
    ELSE ExecuteSwapSafely(t, q, SellSwapMaxRetries)

\* trader.ts:160: withRetry calls fn()
InvokeOp(s, e) ==
    IF s.entry = "withRetry" THEN [s EXCEPT !.pc = "retry_op"]
    ELSE IF s.phase = "buy" THEN Buy(s, e)
    ELSE SafeSellAndClose(s)

\* trader.ts:155-160: the start of attempt n
RetryAttempt(s, n, e) ==
    InvokeOp([s EXCEPT !.rAttempt = n, !.rCalls = s.rCalls + 1], e)

\* trader.ts:144-160
WithRetry(s, maxRetries, initialDelay, exponential, e) ==
    LET t == [s EXCEPT !.rMax = maxRetries, !.rInit = initialDelay,
                       !.rExp = exponential, !.rLastError = NoError,
                       !.rAttempt = 0, !.rCalls = 0, !.rWaits = << >>,
                       !.opErrors = << >>] IN
    IF 1 <= maxRetries THEN RetryAttempt(t, 1, e) ELSE RetryThrow(t)

\* trader.ts:245-247: the value of the environment after the override
EnvOverridden(s, e) ==
    IF s.walletSet /\ s.hasOverride THEN NumberToString(s.override) ELSE e

\* trader.ts:233-256: buyAndSellFlow up to the first await of buy();
\* getWallet() (api.ts:53-56) throws inside the try when there is no key
BuyAndSellFlow(s, e) ==
    IF ~s.walletSet THEN Reject(s, ErrNoKey) ELSE
    WithRetry([s EXCEPT !.phase = "buy", !.phases = Append(s.phases, "buy"),
                        !.envBefore = e,
                        !.originalBuyAmount = ConfigBuyAmount(e)],
              BuyMaxRetries, RetryInitialDelay, TRUE, EnvOverridden(s, e))

\* trader.ts:263-265: the environment once the continuation that took the
\* call from s to t has run
EnvRestored(s, t, e) ==
    IF s.phase = "buy" /\ t.phase = "receipt" /\ s.hasOverride
    THEN s.originalBuyAmount
    ELSE e

\* tokens.ts:92-100: waitForBalanceChange up to its first getTokenBalance
WaitForBalanceChange(s, retries) ==
    [s EXCEPT !.pc = "bal_initial", !.retries = retries, !.attempts = 0,
              !.delays = 0]

\* a variant in which the flow fails when the watcher saw no change
WatchReturnHardGate(s) ==
    IF s.entry = "waitForBalanceChange"
    THEN Resolve([s EXCEPT !.amount = s.currentBalance])
    ELSE IF s.currentBalance = s.initialBalance
    THEN Reject(s, ErrNoBalance)
    ELSE [s EXCEPT !.pc = "hold", !.phase = "hold",
                   !.phases = Append(s.phases, "hold"), !.delays = 0]

\* tokens.ts:116-122: waitForBalanceChange returns currentBalance, to its
\* caller or to trader.ts:271-277 (purchasedAmount is logged, then the hold
\* delay starts)
WatchReturn(s) ==
    IF s.entry = "waitForBalanceChange"
    THEN Resolve([s EXCEPT !.amount = s.currentBalance])
    ELSE [s EXCEPT !.pc = "hold", !.phase = "hold",
                   !.phases = Append(s.phases, "hold"), !.delays = 0]

\* a variant that samples once more than retries
WatchLoopOneMore(s) ==
    IF s.attempts <= s.retries /\ s.currentBalance = s.initialBalance
    THEN [s EXCEPT !.pc = "bal_delay"]
    ELSE WatchReturn(s)

\* tokens.ts:107: the loop condition of waitForBalanceChange, then the
\* delay of line 109 or the return of line 122
WatchLoop(s) ==
    IF s.attempts < s.retries /\ s.currentBalance = s.initialBalance
    THEN [s EXCEPT !.pc = "bal_delay"]
    ELSE WatchReturn(s)

\* tokens.ts:100-107: the first getTokenBalance settled with b
WatchAfterInitial(s, b) ==
    WatchLoop([s EXCEPT !.initialBalance = b, !.currentBalance = b,
                        !.attempts = 0])

\* a variant in which a balance read that gives 0 is an error of the flow
WatchAfterPollRaises(s, b) ==
    IF b = 0 THEN Reject(s, ErrRpc)
    ELSE WatchLoop([s EXCEPT !.currentBalance = b, !.attempts = s.attempts + 1])

\* tokens.ts:111-114: a later getTokenBalance settled with b
WatchAfterPoll(s, b) ==
    WatchLoop([s EXCEPT !.currentBalance = b, !.attempts = s.attempts + 1])

\* trader.ts:277-289: the hold delay is over, the sell starts
FlowAfterHold(s, e) ==
    WithRetry([s EXCEPT !.phase = "sell", !.phases = Append(s.phases, "sell"),
                        !.retries = 0, !.initialBalance = 0, !.initialLedger = 0,
                        !.currentBalance = 0, !.attempts = 0],
              SellMaxRetries, RetryInitialDelay, TRUE, e)

----------------------------------------------------------------------------
(* calculateSlippage (utils/slippage.ts) *)

\* the values of process.env.SLIPPAGE_BPS
FlatSlippages == {Unset, "", "0", "50", "9999"}

\* api.ts:80: process.env.SLIPPAGE_BPS || "100"
ConfigSlippage(e) == IF Falsy(e) THEN "100" ELSE e

\* parseInt for the strings of FlatSlippages and the default
ParseInt(str) == CASE str = "0" -> 0 [] str = "50" -> 50 [] str = "100" -> 100
                   [] str = "9999" -> 9999 [] OTHER -> 0

\* a variant that clamps the flat value like the dynamic one
CalculateSlippageFlatClamped(cfg, isNewToken) ==
    Max(Min(IF ~isNewToken
            THEN ParseInt(IF Falsy(cfg.SLIPPAGE_BPS) THEN "100"
                          ELSE cfg.SLIPPAGE_BPS)
            ELSE cfg.BASE_SLIPPAGE_BPS * cfg.NEW_TOKEN_SLIPPAGE_MULTIPLIER,
            cfg.MAX_SLIPPAGE_BPS),
        cfg.MIN_SLIPPAGE_BPS)

\* a variant that leaves out the lower clamp of line 30
CalculateSlippageNoFloor(cfg, isNewToken) ==
    IF ~isNewToken
    THEN ParseInt(IF Falsy(cfg.SLIPPAGE_BPS) THEN "100" ELSE cfg.SLIPPAGE_BPS)
    ELSE Min(cfg.BASE_SLIPPAGE_BPS * cfg.NEW_TOKEN_SLIPPAGE_MULTIPLIER,
             cfg.MAX_SLIPPAGE_BPS)

\* slippage.ts:16-33
CalculateSlippage(cfg, isNewToken) ==
    IF ~isNewToken
    THEN ParseInt(IF Falsy(cfg.SLIPPAGE_BPS) THEN "100" ELSE cfg.SLIPPAGE_BPS)
    ELSE Max(Min(cfg.BASE_SLIPPAGE_BPS * cfg.NEW_TOKEN_SLIPPAGE_MULTIPLIER,
                 cfg.MAX_SLIPPAGE_BPS),
             cfg.MIN_SLIPPAGE_BPS)

----------------------------------------------------------------------------
(* checkTokenAvailability (trader.ts:187-226) *)

\* a variant of checkAndBuy that starts the flow whatever the probe said
ProbeReturnUngated(s, v, e) ==
    LET t == [s EXCEPT !.value = v] IN
    IF s.entry = "checkAndBuy"
    THEN BuyAndSellFlow([t EXCEPT !.elapsed = 0], e)
    ELSE Resolve(t)

\* trader.ts:206, 214, 225: checkTokenAvailability returns v, to its caller
\* or to checkAndBuy (trader.ts:309-316), which starts the flow on true
ProbeReturn(s, v, e) ==
    LET t == [s EXCEPT !.value = v] IN
    IF s.entry = "checkAndBuy" /\ v = "true"
    THEN BuyAndSellFlow([t EXCEPT !.elapsed = 0], e)
    ELSE Resolve(t)

\* trader.ts:194: the loop condition, then the quote request of line 197 or
\* the return of line 225
ProbeLoop(s, e) ==
    IF s.elapsed < MaxRetryDurationMs
    THEN [s EXCEPT !.pc = "probe_quote"]
    ELSE ProbeReturn(s, "false", e)

\* trader.ts:187-197
CheckTokenAvailability(s, e) == ProbeLoop([s EXCEPT !.elapsed = 0], e)

\* trader.ts:197-221: quoteGet settled (raised, or q)
ProbeAfterQuote(s, raised, q, e) ==
    IF raised
    THEN IF s.elapsed + RetryIntervalMs < MaxRetryDurationMs
         THEN [s EXCEPT !.pc = "probe_delay"]
         ELSE ProbeLoop(s, e)
    ELSE IF q.isNull THEN ProbeReturn(s, "false", e)
    ELSE ProbeReturn(s, "true", e)

----------------------------------------------------------------------------
(* What the collaborators may answer *)

NoTx == [status |-> "none", lastValid |-> 0, kind |-> "none"]

\* what the transaction built for the operation s.op does to the balance
TxKind(s) == CASE s.op = "buy" -> "buy"
               [] s.op \in {"sell", "safeSellAndClose"} -> "sell"
               [] OTHER -> "swap"

\* getTokenBalance (tokens.ts:48-81): the balance, or 0 on any error
GetTokenBalanceOutcomes(c) == {bal[c], 0}

\* getParsedAccountInfo, then getTokenDecimals (tokens.ts:19-39)
GetTokenDecimalsOutcomes(c) ==
    {GetTokenDecimals(raised, calls[c].mintDecimals) : raised \in BOOLEAN}

\* the errors of the operation passed to withRetry in SpecRetry
OpErrors == {"E1", "E2"}

\* the values an arbitrary operation may return
OpResults == {"R1", "R2"}

\* getTransaction: the landed transaction, or null while it is not visible
\* (not landed, or the RPC node lags), or a network error
GetTransactionOutcomes(c) ==
    (IF tx[c].status \in {"ok", "err"} THEN {tx[c].status} ELSE {})
    \cup (IF calls[c].elapsed < patience \/ height > calls[c].lvbh
          THEN {"null"} ELSE {})
    \cup (IF calls[c].elapsed < patience THEN {"raise"} ELSE {})

RpcMayRaise(c) == calls[c].elapsed < patience

----------------------------------------------------------------------------
(* Actions *)

\* the continuation of call c ran and left it in state t
Step(c, t) == calls' = [calls EXCEPT ![c] = t]

\* a caller invokes executeSwapSafely(connection, quote, wallet, maxRetries)
CallExecuteSwapSafely(c) ==
    /\ calls[c].entry = "executeSwapSafely"
    /\ calls[c].pc = "idle"
    /\ Step(c, ExecuteSwapSafely(calls[c], calls[c].quote, calls[c].sMax))
    /\ UNCHANGED <<env, height, tx, bal, patience, config, slippage>>

\* swap.ts:198: getSwapResponse settles
GetSwapResponseReturn(c) ==
    /\ calls[c].pc = "swap_post"
    /\ \/ Step(c, SwapCatch(calls[c], ErrGateway))
       \/ \E l \in 0..MaxHeight :
            Step(c, [calls[c] EXCEPT !.pc = "simulate", !.lvbh = l,
                                     !.respAttempt = calls[c].sAttempt])
    /\ UNCHANGED <<env, height, tx, bal, patience, config, slippage>>

\* swap.ts:163-174: simulateSwap's simulateTransaction settles
SimulateSwapReturn(c) ==
    /\ calls[c].pc = "simulate"
    /\ \/ Step(c, SwapCatch(calls[c], ErrRpc))
       \/ \E r \in {"ok", "err"} :
            LET t == [calls[c] EXCEPT !.sim1 = r] IN
            Step(c, IF SimulationRejects(r)
                    THEN SwapCatch(t, ErrSimulation)
                    ELSE [t EXCEPT !.pc = "exec_simulate"])
    /\ UNCHANGED <<env, height, tx, bal, patience, config, slippage>>

\* swap.ts:47-64: executeSwap's simulateTransaction settles
ExecSimulateReturn(c) ==
    /\ calls[c].pc = "exec_simulate"
    /\ \/ Step(c, SwapCatch(calls[c], ErrRpc))
       \/ \E r \in {"ok", "err"} :
            LET t == [calls[c] EXCEPT !.sim2 = r] IN
            Step(c, IF ExecSimulationRejects(r)
                    THEN SwapCatch(t, ErrSimulation)
                    ELSE [t EXCEPT !.pc = "send"])
    /\ UNCHANGED <<env, height, tx, bal, patience, config, slippage>>

\* transactionSender.ts:44-60: sendRawTransaction settles
SendReturn(c) ==
    /\ calls[c].pc = "send"
    /\ \/ /\ Step(c, SwapCatch(calls[c], ErrRpc))
          /\ tx' = tx
       \/ /\ Step(c, [calls[c] EXCEPT !.pc = "height0",
                                      !.sent = calls[c].sent + 1,
                                      !.elapsed = 0,
                                      !.transactionResponse = "null"])
          /\ tx' = [tx EXCEPT ![c] = [status |-> "pending",
                                      lastValid |-> calls[c].lvbh,
                                      kind |-> TxKind(calls[c])]]
    /\ UNCHANGED <<env, height, bal, patience, config, slippage>>

\* transactionSender.ts:60-62: the first getBlockHeight settles; it is
\* outside the loop's try, so a failure leaves the submitter
InitialBlockHeightReturn(c) ==
    /\ calls[c].pc = "height0"
    /\ \/ /\ RpcMayRaise(c)
          /\ Step(c, SwapCatch(calls[c], ErrRpc))
       \/ \E d \in Latencies :
            Step(c, SubmitLoop([Tick(calls[c], d)
                                  EXCEPT !.currentBlockHeight = height]))
    /\ UNCHANGED <<env, height, tx, bal, patience, config, slippage>>

\* transactionSender.ts:65-72: getTransaction settles
GetTransactionReturn(c) ==
    /\ calls[c].pc = "get_tx"
    /\ \E d \in Latencies, r \in GetTransactionOutcomes(c) :
         LET t == AfterGetTransaction(Tick(calls[c], d), r) IN
         /\ Step(c, t)
         /\ env' = EnvRestored(calls[c], t, env)
    /\ UNCHANGED <<height, tx, bal, patience, config, slippage>>

\* transactionSender.ts:75-82: the loop's getBlockHeight settles
GetBlockHeightReturn(c) ==
    /\ calls[c].pc = "get_height"
    /\ \E d \in Latencies :
         \/ /\ RpcMayRaise(c)
            /\ Step(c, AfterGetBlockHeight(Tick(calls[c], d), TRUE, height))
         \/ Step(c, AfterGetBlockHeight(Tick(calls[c], d), FALSE, height))
    /\ UNCHANGED <<env, height, tx, bal, patience, config, slippage>>

\* transactionSender.ts:82 and 62: wait(2000) is over
WaitDone(c) ==
    /\ calls[c].pc = "wait"
    /\ Step(c, SubmitLoop(Tick(calls[c], PollInterval)))
    /\ UNCHANGED <<env, height, tx, bal, patience, config, slippage>>

\* transactionSender.ts:86 and 62: the catch's wait(2000) is over
CatchWaitDone(c) ==
    /\ calls[c].pc = "catch_wait"
    /\ Step(c, SubmitLoop(Tick(calls[c], PollInterval)))
    /\ UNCHANGED <<env, height, tx, bal, patience, config, slippage>>

\* swap.ts:216, 193: the backoff delay is over, the next attempt starts
SwapDelayDone(c) ==
    /\ calls[c].pc = "swap_delay"
    /\ Step(c, SwapAttempt(calls[c], calls[c].sAttempt + 1))
    /\ UNCHANGED <<env, height, tx, bal, patience, config, slippage>>

(* buy, sell, withRetry, buyAndSellFlow *)

\* a caller invokes buy(outputMint)
CallBuy(c) ==
    /\ calls[c].entry = "buy"
    /\ calls[c].pc = "idle"
    /\ Step(c, Buy(calls[c], env))
    /\ UNCHANGED <<env, height, tx, bal, patience, config, slippage>>

\* a caller invokes sell(inputMint, amount)
CallSell(c) ==
    /\ calls[c].entry = "sell"
    /\ calls[c].pc = "idle"
    /\ Step(c, Sell(calls[c]))
    /\ UNCHANGED <<env, height, tx, bal, patience, config, slippage>>

\* a caller invokes buyAndSellFlow(tokenMint, buyAmountSOL)
CallBuyAndSellFlow(c) ==
    /\ calls[c].entry = "buyAndSellFlow"
    /\ calls[c].pc = "idle"
    /\ Step(c, BuyAndSellFlow(calls[c], env))
    /\ env' = EnvOverridden(calls[c], env)
    /\ UNCHANGED <<height, tx, bal, patience, config, slippage>>

\* withRetry(fn, name, maxRetries, initialDelay, useExponentialBackoff) is
\* called with an arbitrary operation
CallWithRetry(c) ==
    /\ calls[c].entry = "withRetry"
    /\ calls[c].pc = "idle"
    /\ Step(c, WithRetry(calls[c], calls[c].rMax, calls[c].rInit,
                         calls[c].rExp, env))
    /\ UNCHANGED <<env, height, tx, bal, patience, config, slippage>>

\* trader.ts:160: the arbitrary operation settles
RetryOpReturn(c) ==
    /\ calls[c].pc = "retry_op"
    /\ \/ \E r \in OpResults :
            Step(c, RetryReturn([calls[c] EXCEPT !.opResult = r]))
       \/ \E e \in OpErrors : Step(c, RetryCatch(calls[c], e))
    /\ UNCHANGED <<env, height, tx, bal, patience, config, slippage>>

\* trader.ts:174, 155: the delay is over, the next attempt starts
RetryDelayDone(c) ==
    /\ calls[c].pc = "retry_delay"
    /\ Step(c, RetryAttempt(calls[c], calls[c].rAttempt + 1, env))
    /\ UNCHANGED <<env, height, tx, bal, patience, config, slippage>>

\* trader.ts:58: the buy's quoteGet settles
BuyQuoteReturn(c) ==
    /\ calls[c].pc = "buy_quote"
    /\ \/ Step(c, BuyAfterQuote(calls[c], TRUE, NullQuote))
       \/ \E q \in Quotes : Step(c, BuyAfterQuote(calls[c], FALSE, q))
    /\ UNCHANGED <<env, height, tx, bal, patience, config, slippage>>

\* trader.ts:104: sell's getTokenDecimals settles
SellDecimalsReturn(c) ==
    /\ calls[c].pc = "msell_decimals"
    /\ \E d \in GetTokenDecimalsOutcomes(c) :
         Step(c, SellAfterDecimals(calls[c], d))
    /\ UNCHANGED <<env, height, tx, bal, patience, config, slippage>>

\* trader.ts:116: sell's quoteGet settles
SellQuoteReturn(c) ==
    /\ calls[c].pc = "msell_quote"
    /\ \/ Step(c, SellAfterQuote(calls[c], TRUE, NullQuote))
       \/ \E q \in Quotes : Step(c, SellAfterQuote(calls[c], FALSE, q))
    /\ UNCHANGED <<env, height, tx, bal, patience, config, slippage>>

\* tokens.ts:100: waitForBalanceChange's first getTokenBalance settles
BalanceInitialReturn(c) ==
    /\ calls[c].pc = "bal_initial"
    /\ \E b \in GetTokenBalanceOutcomes(c) :
         Step(c, WatchAfterInitial([calls[c] EXCEPT !.initialLedger = bal[c]], b))
    /\ UNCHANGED <<env, height, tx, bal, patience, config, slippage>>

\* tokens.ts:109: the delay between two balance reads is over
BalanceDelayDone(c) ==
    /\ calls[c].pc = "bal_delay"
    /\ Step(c, [calls[c] EXCEPT !.pc = "bal_poll",
                                !.delays = calls[c].delays + 1])
    /\ UNCHANGED <<env, height, tx, bal, patience, config, slippage>>

\* tokens.ts:111: a later getTokenBalance settles
BalancePollReturn(c) ==
    /\ calls[c].pc = "bal_poll"
    /\ \E b \in GetTokenBalanceOutcomes(c) :
         Step(c, WatchAfterPoll(calls[c], b))
    /\ UNCHANGED <<env, height, tx, bal, patience, config, slippage>>

\* trader.ts:277: the hold delay is over
HoldDone(c) ==
    /\ calls[c].pc = "hold"
    /\ Step(c, FlowAfterHold(calls[c], env))
    /\ UNCHANGED <<env, height, tx, bal, patience, config, slippage>>

\* swap.ts:240: safeSellAndClose's getTokenBalance settles
SafeSellBalanceReturn(c) ==
    /\ calls[c].pc = "sell_balance"
    /\ \E b \in GetTokenBalanceOutcomes(c) :
         Step(c, SafeSellAfterBalance(calls[c], b))
    /\ UNCHANGED <<env, height, tx, bal, patience, config, slippage>>

\* swap.ts:248: safeSellAndClose's getTokenDecimals settles
SafeSellDecimalsReturn(c) ==
    /\ calls[c].pc = "sell_decimals"
    /\ \E d \in GetTokenDecimalsOutcomes(c) :
         Step(c, SafeSellAfterDecimals(calls[c], d))
    /\ UNCHANGED <<env, height, tx, bal, patience, config, slippage>>

\* a caller invokes getTokenDecimals(connection, tokenMint)
CallGetTokenDecimals(c) ==
    /\ calls[c].entry = "getTokenDecimals"
    /\ calls[c].pc = "idle"
    /\ Step(c, GetTokenDecimalsCall(calls[c]))
    /\ UNCHANGED <<env, height, tx, bal, patience, config, slippage>>

\* tokens.ts:26: getTokenDecimals' getParsedAccountInfo settles
DecimalsInfoReturn(c) ==
    /\ calls[c].pc = "decimals_info"
    /\ \E i \in InfoOutcomes : Step(c, GetTokenDecimalsAfterInfo(calls[c], i))
    /\ UNCHANGED <<env, height, tx, bal, patience, config, slippage>>

\* swap.ts:262: safeSellAndClose's quoteGet settles
SafeSellQuoteReturn(c) ==
    /\ calls[c].pc = "sell_quote"
    /\ \/ Step(c, SafeSellAfterQuote(calls[c], TRUE, NullQuote))
       \/ \E q \in Quotes : Step(c, SafeSellAfterQuote(calls[c], FALSE, q))
    /\ UNCHANGED <<env, height, tx, bal, patience, config, slippage>>

\* a caller invokes waitForBalanceChange(connection, wallet, mint, retries)
CallWaitForBalanceChange(c) ==
    /\ calls[c].entry = "waitForBalanceChange"
    /\ calls[c].pc = "idle"
    /\ Step(c, WaitForBalanceChange(calls[c], calls[c].retries))
    /\ UNCHANGED <<env, height, tx, bal, patience, config, slippage>>

(* checkTokenAvailability, calculateSlippage *)

\* a caller invokes checkTokenAvailability(mintAddress)
CallCheckTokenAvailability(c) ==
    /\ calls[c].entry = "checkTokenAvailability"
    /\ calls[c].pc = "idle"
    /\ Step(c, CheckTokenAvailability(calls[c], env))
    /\ UNCHANGED <<env, height, tx, bal, patience, config, slippage>>

\* a caller invokes checkAndBuy(newTokenMint): trader.ts:306-309
CallCheckAndBuy(c) ==
    /\ calls[c].entry = "checkAndBuy"
    /\ calls[c].pc = "idle"
    /\ Step(c, CheckTokenAvailability(calls[c], env))
    /\ UNCHANGED <<env, height, tx, bal, patience, config, slippage>>

\* trader.ts:197: the probe's quoteGet settles
ProbeQuoteReturn(c) ==
    /\ calls[c].pc = "probe_quote"
    /\ \E d \in Latencies :
         \/ Step(c, ProbeAfterQuote(Tick(calls[c], d), TRUE, NullQuote, env))
         \/ \E q \in Quotes :
              Step(c, ProbeAfterQuote(Tick(calls[c], d), FALSE, q, env))
    /\ UNCHANGED <<env, height, tx, bal, patience, config, slippage>>

\* trader.ts:219, 194: the retry interval is over
ProbeDelayDone(c) ==
    /\ calls[c].pc = "probe_delay"
    /\ Step(c, ProbeLoop(Tick(calls[c], RetryIntervalMs), env))
    /\ UNCHANGED <<env, height, tx, bal, patience, config, slippage>>

\* a caller invokes calculateSlippage(isNewToken)
CallCalculateSlippage ==
    /\ \E isNewToken \in BOOLEAN :
         slippage' = [called |-> TRUE, isNewToken |-> isNewToken,
                      value |-> CalculateSlippage(config, isNewToken)]
    /\ UNCHANGED <<calls, env, height, tx, bal, patience, config>>

(* The ledger *)

\* a block is produced
AdvanceHeight ==
    /\ height < MaxHeight
    /\ height' = height + 1
    /\ UNCHANGED <<calls, env, tx, bal, patience, config, slippage>>

\* the transaction call c broadcast is included in a block, and executes
\* successfully or with an error; only while its blockhash is valid
Land(c) ==
    /\ tx[c].status = "pending"
    /\ height <= tx[c].lastValid
    /\ \E r \in {"ok", "err"} :
         /\ tx' = [tx EXCEPT ![c] = [status |-> r, lastValid |-> 0,
                                      kind |-> "none"]]
         /\ bal' = [bal EXCEPT ![c] =
                      CASE r = "ok" /\ tx[c].kind = "buy" -> Min(bal[c] + 1, MaxBal)
                        [] r = "ok" /\ tx[c].kind = "sell" -> 0
                        [] OTHER -> bal[c]]
    /\ UNCHANGED <<calls, env, height, patience, config, slippage>>

\* tokens arrive in the wallet's token account, or leave it
BalanceChanges(c) ==
    /\ \E b \in 0..MaxBal : b # bal[c] /\ bal' = [bal EXCEPT ![c] = b]
    /\ UNCHANGED <<calls, env, height, tx, patience, config, slippage>>

SwapStep(c) ==
    \/ GetSwapResponseReturn(c)
    \/ SimulateSwapReturn(c)
    \/ ExecSimulateReturn(c)
    \/ SendReturn(c)
    \/ InitialBlockHeightReturn(c)
    \/ GetTransactionReturn(c)
    \/ GetBlockHeightReturn(c)
    \/ WaitDone(c)
    \/ CatchWaitDone(c)
    \/ SwapDelayDone(c)

Ledger == AdvanceHeight \/ \E c \in Calls : Land(c)

\* api.ts:80, 92-95: getConfig() with no slippage variable set
DefaultConfig ==
    [SLIPPAGE_BPS |-> "100", BASE_SLIPPAGE_BPS |-> 200,
     NEW_TOKEN_SLIPPAGE_MULTIPLIER |-> 5, MAX_SLIPPAGE_BPS |-> 5000,
     MIN_SLIPPAGE_BPS |-> 1000]

NoSlippage == [called |-> FALSE, isNewToken |-> FALSE, value |-> 0]

----------------------------------------------------------------------------
(* SpecSwap: one call of executeSwapSafely, with the ledger answering      *)
(* "not yet" for as long as it likes.                                      *)

InitSwap ==
    /\ \E q \in {QuoteOf("500000")}, m \in {SwapMaxRetries, SellSwapMaxRetries} :
         calls = [c \in Calls |->
                    IF c = 1
                    THEN [InitCall EXCEPT !.entry = "executeSwapSafely",
                                          !.op = "executeSwapSafely",
                                          !.quote = q, !.sMax = m]
                    ELSE InitCall]
    /\ env = "1"
    /\ height \in 0..MaxHeight
    /\ tx = [c \in Calls |-> NoTx]
    /\ bal = [c \in Calls |-> 0]
    /\ patience = TimeoutIn
    /\ config = DefaultConfig
    /\ slippage = NoSlippage

NextSwap ==
    \/ \E c \in Calls : CallExecuteSwapSafely(c) \/ SwapStep(c)
    \/ Ledger

SpecSwap == InitSwap /\ [][NextSwap]_vars

----------------------------------------------------------------------------
(* Spec: one call of buyAndSellFlow, buy or sell against a ledger that     *)
(* answers within MaxPendingMs.                                            *)

FlowStep(c) ==
    \/ RetryDelayDone(c)
    \/ BuyQuoteReturn(c)
    \/ SellDecimalsReturn(c)
    \/ SellQuoteReturn(c)
    \/ BalanceInitialReturn(c)
    \/ BalanceDelayDone(c)
    \/ BalancePollReturn(c)
    \/ HoldDone(c)
    \/ SafeSellBalanceReturn(c)
    \/ SafeSellDecimalsReturn(c)
    \/ SafeSellQuoteReturn(c)

\* the arguments of a call of buyAndSellFlow(tokenMint, buyAmountSOL)
FlowCalls ==
    {[InitCall EXCEPT !.entry = "buyAndSellFlow", !.mintValid = v,
                      !.hasOverride = o # 0, !.override = o]
       : v \in BOOLEAN, o \in {0, 2}}
    \cup {[InitCall EXCEPT !.entry = "buyAndSellFlow", !.walletSet = FALSE,
                           !.hasOverride = TRUE, !.override = 2]}

\* the arguments of a call of buy(outputMint)
BuyCalls == {[InitCall EXCEPT !.entry = "buy", !.mintValid = v] : v \in BOOLEAN}

\* the arguments of a call of sell(inputMint, amount)
SellCalls ==
    {[InitCall EXCEPT !.entry = "sell", !.mintValid = v, !.mintDecimals = d,
                      !.sellAmount = 1] : v \in BOOLEAN, d \in {0, 6}}

Init ==
    /\ \E a \in FlowCalls \cup BuyCalls \cup SellCalls :
         /\ calls = [c \in Calls |-> IF c = 1 THEN a ELSE InitCall]
         /\ env \in IF a.hasOverride THEN {Unset, "1"} ELSE {"1"}
    /\ height = 0
    /\ tx = [c \in Calls |-> NoTx]
    /\ bal = [c \in Calls |-> 0]
    /\ patience = MaxPendingMs
    /\ config = DefaultConfig
    /\ slippage = NoSlippage

Next ==
    \/ \E c \in Calls :
         \/ CallBuyAndSellFlow(c)
         \/ CallBuy(c)
         \/ CallSell(c)
         \/ FlowStep(c)
         \/ SwapStep(c)
    \/ Ledger

Spec == Init /\ [][Next]_vars

----------------------------------------------------------------------------
(* SpecConc: two calls of buyAndSellFlow run concurrently, while the       *)
(* swap-build service is unreachable (every buy ends at its quote or at    *)
(* getSwapResponse).                                                       *)

ConcPcs == {"idle", "buy_quote", "swap_post", "swap_delay", "retry_delay", "done"}

InitConc ==
    /\ \E o1 \in {0, 2}, o2 \in {0, 1}, e \in {Unset, "1"} :
         /\ calls = [c \in Calls |->
                      [InitCall EXCEPT !.entry = "buyAndSellFlow",
                                       !.configured = e,
                                       !.hasOverride = IF c = 1 THEN o1 # 0 ELSE o2 # 0,
                                       !.override = IF c = 1 THEN o1 ELSE o2]]
         /\ env = e
    /\ height = 0
    /\ tx = [c \in Calls |-> NoTx]
    /\ bal = [c \in Calls |-> 0]
    /\ patience = MaxPendingMs
    /\ config = DefaultConfig
    /\ slippage = NoSlippage

\* the swap-build service does not answer with a swap response
SwapServiceDown == \A c \in Calls : calls'[c].pc \in ConcPcs

NextConc ==
    \E c \in Calls :
      \/ CallBuyAndSellFlow(c) /\ SwapServiceDown
      \/ BuyQuoteReturn(c) /\ SwapServiceDown
      \/ GetSwapResponseReturn(c) /\ SwapServiceDown
      \/ SwapDelayDone(c) /\ SwapServiceDown
      \/ RetryDelayDone(c) /\ SwapServiceDown

SpecConc == InitConc /\ [][NextConc]_vars

----------------------------------------------------------------------------
(* SpecRetry: withRetry around an arbitrary operation *)

InitRetry ==
    /\ \E n \in 0..MaxAttempts, d \in {250, 1000}, x \in BOOLEAN :
         calls = [c \in Calls |->
                    IF c = 1
                    THEN [InitCall EXCEPT !.entry = "withRetry", !.rMax = n,
                                          !.rInit = d, !.rExp = x]
                    ELSE InitCall]
    /\ env = "1"
    /\ height = 0
    /\ tx = [c \in Calls |-> NoTx]
    /\ bal = [c \in Calls |-> 0]
    /\ patience = MaxPendingMs
    /\ config = DefaultConfig
    /\ slippage = NoSlippage

NextRetry ==
    \E c \in Calls : CallWithRetry(c) \/ RetryOpReturn(c) \/ RetryDelayDone(c)

SpecRetry == InitRetry /\ [][NextRetry]_vars

----------------------------------------------------------------------------
(* SpecHappy: one buyAndSellFlow call whose collaborators all succeed:     *)
(* every quote is positive, every simulation passes, every call to the     *)
(* gateways and to the ledger RPC answers, every transaction lands         *)
(* without error, while its blockhash is valid, and is seen by a poll      *)
(* before the timeout. The event loop runs every continuation whose await  *)
(* has settled, hence the weak fairness of the steps.                      *)

Happy ==
    \A c \in Calls :
      /\ calls'[c].rLastError = NoError
      /\ calls'[c].sLastError = NoError
      /\ ~calls'[c].pollFailed
      /\ calls'[c].pc \in SwapPcs => QuotePositive(calls'[c].quote)
      /\ calls'[c].pc \in {"bal_delay", "bal_poll"}
           => calls'[c].currentBalance = bal'[c]
      /\ calls'[c].pc = "sell_decimals" => calls'[c].tokenBalance = bal'[c]
      /\ tx'[c].status # "err"
      /\ calls'[c].pc \in {"simulate", "exec_simulate"} \cup SubmitPcs
           => height' <= calls'[c].lvbh
      /\ calls'[c].pc \in {"get_height", "wait"}
           => calls'[c].elapsed + PollInterval < TimeoutIn

InitHappy ==
    /\ \E o \in {0, 2} :
         calls = [c \in Calls |->
                    IF c = 1
                    THEN [InitCall EXCEPT !.entry = "buyAndSellFlow",
                                          !.hasOverride = o # 0, !.override = o]
                    ELSE InitCall]
    /\ env = "1"
    /\ height = 0
    /\ tx = [c \in Calls |-> NoTx]
    /\ bal = [c \in Calls |-> 0]
    /\ patience = MaxPendingMs
    /\ config = DefaultConfig
    /\ slippage = NoSlippage

NextHappy ==
    \/ \E c \in Calls :
         \/ CallBuyAndSellFlow(c) /\ Happy
         \/ BuyQuoteReturn(c) /\ Happy
         \/ GetSwapResponseReturn(c) /\ Happy
         \/ SimulateSwapReturn(c) /\ Happy
         \/ ExecSimulateReturn(c) /\ Happy
         \/ SendReturn(c) /\ Happy
         \/ InitialBlockHeightReturn(c) /\ Happy
         \/ GetTransactionReturn(c) /\ Happy
         \/ GetBlockHeightReturn(c) /\ Happy
         \/ WaitDone(c) /\ Happy
         \/ BalanceInitialReturn(c) /\ Happy
         \/ BalanceDelayDone(c) /\ Happy
         \/ BalancePollReturn(c) /\ Happy
         \/ HoldDone(c) /\ Happy
         \/ SafeSellBalanceReturn(c) /\ Happy
         \/ SafeSellDecimalsReturn(c) /\ Happy
         \/ SafeSellQuoteReturn(c) /\ Happy
         \/ Land(c) /\ Happy
    \/ AdvanceHeight /\ Happy

SpecHappy == InitHappy /\ [][NextHappy]_vars /\ WF_vars(NextHappy)

----------------------------------------------------------------------------
(* SpecWatch: waitForBalanceChange alone, the balance changing at will *)

WatchRetries == {0, 1, BalanceRetryCount}

InitWatch ==
    /\ \E r \in WatchRetries :
         calls = [c \in Calls |->
                    IF c = 1
                    THEN [InitCall EXCEPT !.entry = "waitForBalanceChange",
                                          !.retries = r]
                    ELSE InitCall]
    /\ env = "1"
    /\ height = 0
    /\ tx = [c \in Calls |-> NoTx]
    /\ \E b \in 0..MaxBal : bal = [c \in Calls |-> IF c = 1 THEN b ELSE 0]
    /\ patience = MaxPendingMs
    /\ config = DefaultConfig
    /\ slippage = NoSlippage

NextWatch ==
    \E c \in Calls :
      \/ CallWaitForBalanceChange(c)
      \/ BalanceInitialReturn(c)
      \/ BalanceDelayDone(c)
      \/ BalancePollReturn(c)
      \/ BalanceChanges(c)

SpecWatch == InitWatch /\ [][NextWatch]_vars

----------------------------------------------------------------------------
(* SpecProbe: one call of checkTokenAvailability *)

InitProbe ==
    /\ calls = [c \in Calls |->
                  IF c = 1
                  THEN [InitCall EXCEPT !.entry = "checkTokenAvailability"]
                  ELSE InitCall]
    /\ env = "1"
    /\ height = 0
    /\ tx = [c \in Calls |-> NoTx]
    /\ bal = [c \in Calls |-> 0]
    /\ patience = MaxPendingMs
    /\ config = DefaultConfig
    /\ slippage = NoSlippage

NextProbe ==
    \E c \in Calls :
      CallCheckTokenAvailability(c) \/ ProbeQuoteReturn(c) \/ ProbeDelayDone(c)

SpecProbe == InitProbe /\ [][NextProbe]_vars

----------------------------------------------------------------------------
(* SpecGate: one call of checkAndBuy: the probe, then the flow it starts *)

InitGate ==
    /\ calls = [c \in Calls |->
                  IF c = 1 THEN [InitCall EXCEPT !.entry = "checkAndBuy"]
                  ELSE InitCall]
    /\ env = "1"
    /\ height = 0
    /\ tx = [c \in Calls |-> NoTx]
    /\ bal = [c \in Calls |-> 0]
    /\ patience = MaxPendingMs
    /\ config = DefaultConfig
    /\ slippage = NoSlippage

NextGate ==
    \/ \E c \in Calls :
         \/ CallCheckAndBuy(c)
         \/ ProbeQuoteReturn(c)
         \/ ProbeDelayDone(c)
         \/ RetryDelayDone(c)
         \/ BuyQuoteReturn(c)
         \/ BalanceInitialReturn(c)
         \/ BalanceDelayDone(c)
         \/ BalancePollReturn(c)
         \/ HoldDone(c)
         \/ SafeSellBalanceReturn(c)
         \/ SafeSellDecimalsReturn(c)
         \/ SafeSellQuoteReturn(c)
         \/ SwapStep(c)
    \/ Ledger

SpecGate == InitGate /\ [][NextGate]_vars

----------------------------------------------------------------------------
(* SpecSlippage: calculateSlippage under every small configuration *)

CfgValues == (0 - 1)..MaxCfg

InitSlippage ==
    /\ calls = [c \in Calls |-> InitCall]
    /\ env = "1"
    /\ height = 0
    /\ tx = [c \in Calls |-> NoTx]
    /\ bal = [c \in Calls |-> 0]
    /\ patience = MaxPendingMs
    /\ config \in [SLIPPAGE_BPS : {ConfigSlippage(e) : e \in FlatSlippages},
                    BASE_SLIPPAGE_BPS : CfgValues,
                    NEW_TOKEN_SLIPPAGE_MULTIPLIER : CfgValues,
                    MAX_SLIPPAGE_BPS : CfgValues,
                    MIN_SLIPPAGE_BPS : CfgValues]
    /\ slippage = NoSlippage

NextSlippage == CallCalculateSlippage

SpecSlippage == InitSlippage /\ [][NextSlippage]_vars

----------------------------------------------------------------------------
(* getTokenDecimals alone: two callers, each with a mint of its own *)

\* the arguments of a call of getTokenDecimals(connection, tokenMint): a
\* token mint with 0..MaxDecimals decimals, or the SOL mint (9 decimals)
DecimalsCalls ==
    {[InitCall EXCEPT !.entry = "getTokenDecimals", !.mintDecimals = d]
       : d \in 0..MaxDecimals}
    \cup {[InitCall EXCEPT !.entry = "getTokenDecimals", !.mintIsSol = TRUE,
                           !.mintDecimals = SOL_DECIMALS]}

InitDecimals ==
    /\ calls \in [Calls -> DecimalsCalls]
    /\ env = "1"
    /\ height = 0
    /\ tx = [c \in Calls |-> NoTx]
    /\ bal = [c \in Calls |-> 0]
    /\ patience = MaxPendingMs
    /\ config = DefaultConfig
    /\ slippage = NoSlippage

NextDecimals ==
    \E c \in Calls :
      \/ CallGetTokenDecimals(c)
      \/ DecimalsInfoReturn(c)

SpecDecimals == InitDecimals /\ [][NextDecimals]_vars

----------------------------------------------------------------------------
(* Properties *)

\* C1 (as amended): in a poll iteration whose getTransaction returned null
\* the block height is read again, and when that read gives a height above
\* lastValidBlockHeight the submitter returns null in that iteration: the
\* loop goes on to its wait(2000) only with a height that does not exceed
\* it, and a null returned before the timeout is an expiry that was seen.
C1_ExpiryReturnsNull ==
    \A c \in Calls :
        /\ calls[c].pc = "get_height" => calls[c].transactionResponse = "null"
        /\ calls[c].pc = "wait" =>
              calls[c].currentBlockHeight <= calls[c].lvbh
        /\ ( /\ calls[c].pc \in {"swap_delay", "done"}
             /\ calls[c].sLastError = ErrNotConfirmed
             /\ calls[c].transactionResponse = "null"
             /\ calls[c].elapsed < TimeoutIn )
           => calls[c].currentBlockHeight > calls[c].lvbh

\* C1, witness: the submitter returned null on an expiry, before the timeout
C1_Witness ==
    \E c \in Calls :
        /\ calls[c].pc = "swap_delay"
        /\ calls[c].sLastError = ErrNotConfirmed
        /\ calls[c].transactionResponse = "null"
        /\ calls[c].currentBlockHeight > calls[c].lvbh
        /\ calls[c].elapsed < TimeoutIn

\* C1 (as stated): every poll iteration that ends without a confirmation
\* while the block height exceeds lastValidBlockHeight returns null, that
\* is, no iteration goes on to a wait(2000) at such a height.
C1_EveryIterationChecksExpiry ==
    [][\A c \in Calls :
         ( /\ calls[c].pc \in {"get_tx", "get_height"}
           /\ calls'[c].pc \in {"wait", "catch_wait"} )
         => height <= calls[c].lvbh]_vars

\* C2 (as stated): once an attempt of executeSwapSafely ended with the
\* on-chain execution error, the same call requests no swap response,
\* simulates nothing and broadcasts nothing.
C2_OnChainErrorNotRetried ==
    \A c \in Calls :
        calls[c].pc \in {"swap_post", "simulate", "exec_simulate", "send"}
        => calls[c].sLastError # ErrTxFailed

\* C3 (as the specification states it): once a buyAndSellFlow call has
\* finished, resolved or rejected, process.env.BUY_AMOUNT_SOL has the value
\* it had before the call.  The code restores the variable only after a
\* successful buy (trader.ts:263-265), and then to getConfig()'s value.
C3_OverrideRestoredAtEnd ==
    \A c \in Calls :
      (calls[c].entry = "buyAndSellFlow" /\ calls[c].result # "pending")
        => env = calls[c].envBefore

\* C4 (as the specification states it): with two buyAndSellFlow calls in
\* flight, every buy quote of a flow is requested with the flow's own
\* amount: its override, or the configured amount when it has none.
C4_BuyQuotesUseOwnAmount ==
    \A c \in Calls :
      calls[c].buyAmts \subseteq
        {IF calls[c].hasOverride
         THEN ToLamports(calls[c].override, SOL_DECIMALS)
         ELSE BuyAmountLamports(calls[c].configured)}

\* C5: when every invocation of the operation fails and maxRetries >= 1,
\* withRetry invokes it exactly maxRetries times, waits
\* initialDelay * 2^(k-1) ms (initialDelay when not exponential) after the
\* k-th failure for k < maxRetries, never waits after the last failure, and
\* rejects with the error of the last invocation.
C5_RetrySchedule ==
    \A c \in Calls :
      calls[c].entry = "withRetry" =>
        /\ calls[c].pc = "retry_delay" => calls[c].rAttempt < calls[c].rMax
        /\ (calls[c].result = "rejected" /\ calls[c].rMax >= 1) =>
             /\ calls[c].rCalls = calls[c].rMax
             /\ Len(calls[c].opErrors) = calls[c].rMax
             /\ Len(calls[c].rWaits) = calls[c].rMax - 1
             /\ \A k \in 1..(calls[c].rMax - 1) :
                  calls[c].rWaits[k] =
                    IF calls[c].rExp THEN calls[c].rInit * Pow(2, k - 1)
                    ELSE calls[c].rInit
             /\ calls[c].error = calls[c].opErrors[calls[c].rMax]

\* C5 witness: maxRetries = 3, initialDelay = 1000, exponential: three
\* failed invocations, waits of 1000 and 2000 ms, rejected with the last error
C5_Witness ==
    \E c \in Calls :
      /\ calls[c].entry = "withRetry"
      /\ calls[c].result = "rejected"
      /\ calls[c].rMax = 3 /\ calls[c].rInit = 1000 /\ calls[c].rExp
      /\ calls[c].rCalls = 3
      /\ calls[c].rWaits = <<1000, 2000>>
      /\ calls[c].opErrors = <<"E1", "E1", "E2">>
      /\ calls[c].error = "E2"

\* C6 (as the specification states it): buy, sell and safeSellAndClose
\* build, simulate and broadcast a swap only from a quote whose outAmount
\* is present and > 0.  safeSellAndClose checks only that outAmount is
\* truthy (swap.ts:264).
C6_SwapOnlyFromPositiveQuote ==
    \A c \in Calls :
      (calls[c].op \in {"buy", "sell", "safeSellAndClose"}
         /\ calls[c].pc \in SwapPcs)
        => QuotePositive(calls[c].quote)

\* C7 (as amended): calculateSlippage(true) equals MIN_SLIPPAGE_BPS when
\* base*multiplier < min or when max < min, equals MAX_SLIPPAGE_BPS when
\* base*multiplier > max and max >= min, and base*multiplier otherwise.
C7_ClampWithinOrderedRange ==
    (slippage.called /\ slippage.isNewToken) =>
      LET bm == config.BASE_SLIPPAGE_BPS * config.NEW_TOKEN_SLIPPAGE_MULTIPLIER
          mx == config.MAX_SLIPPAGE_BPS
          mn == config.MIN_SLIPPAGE_BPS IN
      /\ (bm < mn \/ mx < mn) => slippage.value = mn
      /\ (bm > mx /\ mx >= mn) => slippage.value = mx
      /\ (bm >= mn /\ bm <= mx) => slippage.value = bm

\* C7 witness: max < min and base*multiplier above max: the result is min
C7_Witness ==
    /\ slippage.called /\ slippage.isNewToken
    /\ config.BASE_SLIPPAGE_BPS = 3 /\ config.NEW_TOKEN_SLIPPAGE_MULTIPLIER = 3
    /\ config.MAX_SLIPPAGE_BPS = 1 /\ config.MIN_SLIPPAGE_BPS = 2
    /\ slippage.value = 2

\* C7 (as the specification states it): max when base*multiplier > max,
\* min when base*multiplier < min, base*multiplier otherwise
C7_ClampForAllConfigurations ==
    (slippage.called /\ slippage.isNewToken) =>
      LET bm == config.BASE_SLIPPAGE_BPS * config.NEW_TOKEN_SLIPPAGE_MULTIPLIER
          mx == config.MAX_SLIPPAGE_BPS
          mn == config.MIN_SLIPPAGE_BPS IN
      slippage.value = IF bm > mx THEN mx ELSE IF bm < mn THEN mn ELSE bm

\* C8 (as the specification states it): checkTokenAvailability returns
\* false only once maxRetryDurationMs has elapsed since it started.  The
\* code returns false at once when a quote request comes back without a
\* response (trader.ts:203-206).
C8_FalseOnlyAfterDuration ==
    \A c \in Calls :
      (calls[c].entry = "checkTokenAvailability" /\ calls[c].value = "false")
        => calls[c].elapsed >= MaxRetryDurationMs

\* C9: a response with an execution error ends the submitter at once (no
\* further poll, one broadcast) and makes executeSwap fail; executeSwap
\* succeeds only on a response without error, and fails on null.
C9_ErrorResponseIsFailure ==
    \A c \in Calls :
        /\ calls[c].transactionResponse = "err" =>
              /\ calls[c].pc \notin SubmitPcs
              /\ calls[c].sent = 1
              /\ calls[c].sLastError = ErrTxFailed
              /\ calls[c].result # "resolved"
        /\ calls[c].result = "resolved" => calls[c].transactionResponse = "ok"
        /\ ( calls[c].transactionResponse = "null"
             /\ calls[c].pc \notin SubmitPcs )
           => calls[c].result # "resolved"

\* C9, witness: executeSwap failed on a response carrying an error
C9_Witness ==
    \E c \in Calls :
        /\ calls[c].transactionResponse = "err"
        /\ calls[c].sLastError = ErrTxFailed
        /\ calls[c].pc = "swap_delay"

\* C10: a transaction is broadcast in an attempt only after both
\* simulations of that attempt's swap response reported no error.
C10_NoBroadcastAfterFailedSimulation ==
    \A c \in Calls :
        /\ (calls[c].pc \in SubmitPcs \/ calls[c].sent > 0) =>
              (calls[c].sim1 = "ok" /\ calls[c].sim2 = "ok")
        /\ (calls[c].sim1 = "err" \/ calls[c].sim2 = "err") =>
              (calls[c].sent = 0 /\ calls[c].pc \notin SubmitPcs)

\* C10, witness: a simulation reported an error and the attempt was
\* given up without a broadcast
C10_Witness ==
    \E c \in Calls :
        /\ calls[c].sim2 = "err"
        /\ calls[c].sLastError = ErrSimulation
        /\ calls[c].pc = "swap_delay"
        /\ calls[c].sent = 0

\* C11: a flow leaves its buy phase only when a buy() call has returned;
\* when the third buy attempt has failed the flow is rejected at once with
\* that attempt's error, still in its buy phase: no balance watch, no hold
\* delay, and no sell transaction on the ledger.
C11_BuyFailureEndsFlow ==
    \A c \in Calls :
      calls[c].entry = "buyAndSellFlow" =>
        /\ calls[c].phase \in {"receipt", "hold", "sell"}
             => calls[c].returned >= 1
        /\ (calls[c].phase = "buy" /\ calls[c].pc = "retry_delay")
             => calls[c].rCalls < BuyMaxRetries
        /\ (/\ calls[c].result = "rejected" /\ calls[c].returned = 0
            /\ calls[c].phases # << >>) =>
             /\ calls[c].phase = "buy"
             /\ calls[c].rCalls = BuyMaxRetries
             /\ calls[c].error = calls[c].rLastError
             /\ calls[c].error # NoError
             /\ tx[c].kind # "sell"
             /\ calls[c].retries = 0 /\ calls[c].attempts = 0

\* C11, witness: the third buy was confirmed with an on-chain error and the
\* flow was rejected with it
C11_Witness ==
    \E c \in Calls :
      /\ calls[c].entry = "buyAndSellFlow"
      /\ calls[c].result = "rejected"
      /\ calls[c].phase = "buy"
      /\ calls[c].rCalls = BuyMaxRetries
      /\ calls[c].error = ErrTxFailed

\* C12: when safeSellAndClose's getTokenBalance settles, the attempt either
\* goes on to getTokenDecimals with a balance > 0, or fails at once with the
\* no-balance error (to withRetry's catch) leaving the ledger untouched; its
\* quote request, swap-build request, simulation and broadcast all happen
\* with a sampled balance > 0.
C12_NoBalanceFailsBeforeQuote ==
    [][\A c \in Calls :
         /\ (calls[c].pc = "sell_balance" /\ calls'[c] # calls[c]) =>
              \/ calls'[c].pc = "sell_decimals" /\ calls'[c].tokenBalance > 0
              \/ /\ calls'[c].pc \in {"retry_delay", "done"}
                 /\ calls'[c].rLastError = ErrNoBalance
                 /\ calls'[c].rCalls = calls[c].rCalls
                 /\ tx' = tx
         /\ (calls'[c].op = "safeSellAndClose"
               /\ calls'[c].pc \in {"sell_decimals", "sell_quote"} \cup SwapPcs)
              => calls'[c].tokenBalance > 0]_vars

\* C12, witness: the first sell attempt sampled no balance and failed with
\* the no-balance error before anything was broadcast for the sell
C12_Witness ==
    \E c \in Calls :
      /\ calls[c].phase = "sell"
      /\ calls[c].pc = "retry_delay"
      /\ calls[c].rAttempt = 1
      /\ calls[c].rLastError = ErrNoBalance
      /\ tx[c].kind # "sell"

\* C13: waitForBalanceChange never rejects; it returns the last sample, and
\* every sample after the first is preceded by one delay; when the returned
\* amount equals the initial sample (no sample differed from it), exactly
\* `retries` samples were taken after the initial one.
C13_WatcherNeverFails ==
    \A c \in Calls :
      calls[c].entry = "waitForBalanceChange" =>
        /\ calls[c].result # "rejected"
        /\ calls[c].attempts <= calls[c].retries
        /\ calls[c].delays =
             calls[c].attempts + (IF calls[c].pc = "bal_poll" THEN 1 ELSE 0)
        /\ calls[c].result = "resolved" =>
             /\ calls[c].amount = calls[c].currentBalance
             /\ calls[c].amount = calls[c].initialBalance =>
                  /\ calls[c].attempts = calls[c].retries
                  /\ calls[c].delays = calls[c].retries

\* C13, witness: the default 5 retries, the balance stayed 0: five samples
\* and five delays after the initial sample, 0 returned
C13_Witness ==
    \E c \in Calls :
      /\ calls[c].entry = "waitForBalanceChange"
      /\ calls[c].result = "resolved"
      /\ calls[c].retries = BalanceRetryCount
      /\ calls[c].attempts = BalanceRetryCount
      /\ calls[c].delays = BalanceRetryCount
      /\ calls[c].initialBalance = 0
      /\ calls[c].amount = 0

\* C14: a settled getTransaction or getBlockHeight of the loop leaves the
\* submitter in the loop (the catch's wait when it raised) or returns a
\* response or null; it never fails the attempt with the poll's error.
\* After the catch's wait of 2000 ms the loop polls again unless the
\* timeout has elapsed.
C14_PollFailureAbsorbed ==
    [][\A c \in Calls :
         calls[c].entry = "executeSwapSafely" =>
           /\ (calls[c].pc \in {"get_tx", "get_height"} /\ calls'[c] # calls[c]) =>
                \/ /\ calls'[c].pc \in {"catch_wait", "get_height", "wait"}
                   /\ calls'[c].pollFailed = (calls[c].pollFailed
                                               \/ calls'[c].pc = "catch_wait")
                \/ /\ calls'[c].result = "resolved"
                   /\ calls'[c].transactionResponse = "ok"
                \/ /\ calls'[c].pc \in {"swap_delay", "done"}
                   /\ calls'[c].result # "resolved"
                   /\ \/ /\ calls'[c].transactionResponse = "null"
                         /\ calls'[c].sLastError = ErrNotConfirmed
                      \/ /\ calls'[c].transactionResponse = "err"
                         /\ calls'[c].sLastError = ErrTxFailed
           /\ (calls[c].pc = "catch_wait" /\ calls'[c] # calls[c]) =>
                /\ calls'[c].elapsed = Min(calls[c].elapsed + PollInterval, TimeoutIn)
                /\ calls'[c].elapsed < TimeoutIn => calls'[c].pc = "get_tx"
                /\ calls'[c].elapsed >= TimeoutIn
                     => calls'[c].transactionResponse = "null"]_vars

\* C14, witness: a poll raised, and a later poll of the same submitter call
\* returned the confirmation
C14_Witness ==
    \E c \in Calls :
      /\ calls[c].entry = "executeSwapSafely"
      /\ calls[c].result = "resolved"
      /\ calls[c].pollFailed
      /\ calls[c].transactionResponse = "ok"
      /\ calls[c].elapsed < TimeoutIn

\* C15: a submitter call broadcasts once: the broadcast count of an attempt
\* goes from 0 to 1 when sendRawTransaction settles, before the first
\* getBlockHeight and every poll, and no step of the polling loop leads back
\* to sendRawTransaction or changes the count.
C15_OneBroadcastPerSubmit ==
    [][\A c \in Calls :
         calls[c].entry = "executeSwapSafely" =>
           /\ calls'[c].sent <= 1
           /\ calls'[c].pc \in ({"height0"} \cup PollPcs) => calls'[c].sent = 1
           /\ calls'[c].sent # calls[c].sent =>
                \/ /\ calls[c].pc = "send" /\ calls'[c].pc = "height0"
                   /\ calls'[c].sent = 1
                   /\ tx'[c].status = "pending"
                \/ calls'[c].sent = 0 /\ calls'[c].pc = "swap_post"
           /\ (calls[c].pc \in ({"height0"} \cup PollPcs)
                 /\ calls'[c] # calls[c]
                 /\ calls'[c].pc \in SubmitPcs) =>
                /\ calls'[c].pc \in PollPcs
                /\ calls'[c].sent = calls[c].sent
                /\ calls'[c].sAttempt = calls[c].sAttempt]_vars

\* C15, witness: after a raised poll and two waits the submitter polls
\* again, having broadcast once
C15_Witness ==
    \E c \in Calls :
      /\ calls[c].entry = "executeSwapSafely"
      /\ calls[c].pc = "get_tx"
      /\ calls[c].pollFailed
      /\ calls[c].elapsed = 2 * PollInterval
      /\ calls[c].sent = 1

\* C16: a poll iteration starts only before the timeout; when the loop
\* condition is evaluated (after the first getBlockHeight or after a wait)
\* with the timeout elapsed, the submitter returns null and executeSwap fails
\* with "Transaction not confirmed".
C16_TimeoutReturnsNull ==
    [][\A c \in Calls :
         calls[c].entry = "executeSwapSafely" =>
           /\ calls'[c].pc = "get_tx" => calls'[c].elapsed < TimeoutIn
           /\ (calls[c].pc \in {"height0", "wait", "catch_wait"}
                 /\ calls'[c] # calls[c]
                 /\ calls'[c].elapsed >= TimeoutIn) =>
                /\ calls'[c].pc \notin SubmitPcs
                /\ calls'[c].transactionResponse = "null"
                /\ calls'[c].sLastError = ErrNotConfirmed
                /\ calls'[c].result # "resolved"]_vars

\* C16, witness: the timeout elapsed while the transaction was still valid
\* and not yet landed; the submitter returned null
C16_Witness ==
    \E c \in Calls :
      /\ calls[c].entry = "executeSwapSafely"
      /\ calls[c].pc = "swap_delay"
      /\ calls[c].elapsed = TimeoutIn
      /\ calls[c].transactionResponse = "null"
      /\ calls[c].sLastError = ErrNotConfirmed
      /\ tx[c].status = "pending"
      /\ height <= calls[c].lvbh

\* C17: a flow that has started its buy is rejected only by the step in
\* which the last attempt of its outer retry failed (the 3rd buy or the 5th
\* sell), with that attempt's error; a flow resolves only when both its buy
\* and its sell have returned.
C17_ExhaustedRetryRejectsWithLastError ==
    [][\A c \in Calls :
         calls[c].entry = "buyAndSellFlow" =>
           /\ (/\ calls[c].result = "pending" /\ calls'[c].result = "rejected"
               /\ calls[c].pc # "idle") =>
                /\ calls[c].pc \in ({"buy_quote", "sell_balance", "sell_quote",
                                     "retry_delay"} \cup SwapPcs)
                /\ calls[c].pc = "retry_delay" => ~calls[c].mintValid
                /\ calls'[c].rCalls = calls[c].rMax
                /\ calls'[c].error = calls'[c].rLastError
                /\ calls'[c].error \notin {NoError, ErrUnknown}
                /\ calls'[c].phase = calls[c].phase
                /\ \/ /\ calls[c].phase = "buy"
                      /\ calls[c].rMax = BuyMaxRetries
                      /\ calls[c].returned = 0
                   \/ /\ calls[c].phase = "sell"
                      /\ calls[c].rMax = SellMaxRetries
                      /\ calls[c].returned = 1
           /\ calls'[c].result = "resolved" =>
                calls'[c].returned = 2 /\ calls'[c].phase = "sell"
           /\ calls[c].result # "pending" => calls'[c] = calls[c]]_vars

\* C17, witness: the fifth sell attempt was confirmed with an on-chain error
\* and the flow was rejected with it
C17_Witness ==
    \E c \in Calls :
      /\ calls[c].entry = "buyAndSellFlow"
      /\ calls[c].result = "rejected"
      /\ calls[c].phase = "sell"
      /\ calls[c].rCalls = SellMaxRetries
      /\ calls[c].returned = 1
      /\ calls[c].error = ErrTxFailed

\* C18: when every collaborator succeeds, the flow is never rejected, it
\* makes one attempt per side and that attempt broadcasts once and returns
\* on a transaction that landed without error; the flow enters Buying,
\* AwaitingReceipt, Holding and Selling in that order and resolves only after
\* both sides have returned, which it eventually does.
C18_HappyPathClosesInOrder ==
  /\ \A c \in Calls : calls[c].phase = "buy" ~> calls[c].result = "resolved"
  /\
    [][\A c \in Calls :
         calls[c].entry = "buyAndSellFlow" =>
           /\ calls'[c].result # "rejected"
           /\ calls'[c].rCalls <= 1 /\ calls'[c].sAttempt <= 1
           /\ calls'[c].sent <= 1
           /\ calls'[c].returned # calls[c].returned =>
                /\ calls'[c].returned = calls[c].returned + 1
                /\ calls[c].sent = 1
                /\ tx[c].status = "ok"
                /\ calls[c].phase = IF calls[c].returned = 0 THEN "buy" ELSE "sell"
           /\ \E n \in 0..4 :
                calls'[c].phases = SubSeq(<<"buy", "receipt", "hold", "sell">>, 1, n)
           /\ calls'[c].result = "resolved" =>
                /\ calls'[c].returned = 2
                /\ calls'[c].phases = <<"buy", "receipt", "hold", "sell">>]_vars

\* C18, witness: the flow resolved after the four phases; its sell
\* transaction landed and emptied the balance the buy had raised
C18_Witness ==
    \E c \in Calls :
      /\ calls[c].entry = "buyAndSellFlow"
      /\ calls[c].result = "resolved"
      /\ calls[c].phases = <<"buy", "receipt", "hold", "sell">>
      /\ calls[c].returned = 2
      /\ calls[c].rLastError = NoError
      /\ tx[c].status = "ok"
      /\ bal[c] = 0

\* C19: once the buy has returned, no step of the balance watch rejects the
\* flow: the watch polls on or hands over to the hold delay, whatever it
\* sampled, and the end of the hold delay starts the sell.
C19_WatchIsSoftCheck ==
    [][\A c \in Calls :
         (calls[c].entry = "buyAndSellFlow" /\ calls'[c] # calls[c]) =>
           /\ calls[c].pc \in {"bal_initial", "bal_delay", "bal_poll"} =>
                /\ calls'[c].result = "pending"
                /\ calls'[c].pc \in {"bal_delay", "bal_poll", "hold"}
                /\ calls'[c].pc = "hold" =>
                     /\ calls'[c].phase = "hold"
                     /\ \/ calls'[c].attempts = calls'[c].retries
                        \/ calls'[c].currentBalance # calls'[c].initialBalance
           /\ calls[c].pc = "hold" =>
                /\ calls'[c].result = "pending"
                /\ calls'[c].phase = "sell"
                /\ calls'[c].op = "safeSellAndClose"
                /\ calls'[c].pc = "sell_balance"]_vars

\* C19, witness: the flow is in the hold delay after a watch that sampled an
\* unchanged zero balance on all of its attempts
C19_Witness ==
    \E c \in Calls :
      /\ calls[c].entry = "buyAndSellFlow"
      /\ calls[c].pc = "hold" /\ calls[c].phase = "hold"
      /\ calls[c].attempts = BalanceRetryCount
      /\ calls[c].initialBalance = 0
      /\ calls[c].currentBalance = 0
      /\ calls[c].result = "pending"

\* C20: calculateSlippage(false) returns the flat SLIPPAGE_BPS of the
\* environment as a number, whatever MIN_SLIPPAGE_BPS and MAX_SLIPPAGE_BPS
\* are: 0 for "0", 50 for "50", 9999 for "9999", and 100 when the variable
\* is unset or empty.
C20_FlatSlippagePassesThrough ==
    (slippage.called /\ ~slippage.isNewToken) =>
      /\ config.SLIPPAGE_BPS = ConfigSlippage("0") => slippage.value = 0
      /\ config.SLIPPAGE_BPS = ConfigSlippage("50") => slippage.value = 50
      /\ config.SLIPPAGE_BPS = ConfigSlippage("9999") => slippage.value = 9999
      /\ config.SLIPPAGE_BPS = ConfigSlippage(Unset) => slippage.value = 100
      /\ config.SLIPPAGE_BPS = ConfigSlippage("") => slippage.value = 100
      /\ \E e \in FlatSlippages : config.SLIPPAGE_BPS = ConfigSlippage(e)

\* C20, witness: a flat 9999 was returned although it exceeds
\* MAX_SLIPPAGE_BPS, the bounds being ordered
C20_Witness ==
    /\ slippage.called /\ ~slippage.isNewToken
    /\ config.SLIPPAGE_BPS = "9999"
    /\ slippage.value = 9999
    /\ 0 < config.MIN_SLIPPAGE_BPS
    /\ config.MIN_SLIPPAGE_BPS <= config.MAX_SLIPPAGE_BPS
    /\ config.MAX_SLIPPAGE_BPS < 9999

\* C21 (as amended): a flow is rejected only from Idle (no wallet key),
\* from Buying or from Selling; no step taken in AwaitingReceipt or in
\* Holding rejects it.
C21_FailureOnlyOutsideWatchAndHold ==
    [][\A c \in Calls :
         (/\ calls[c].entry = "buyAndSellFlow"
          /\ calls[c].result = "pending"
          /\ calls'[c].result = "rejected") =>
           /\ calls[c].phase \in {"none", "buy", "sell"}
           /\ calls[c].phase = "none" =>
                calls[c].pc = "idle" /\ calls'[c].error = ErrNoKey
           /\ calls'[c].phase = calls[c].phase]_vars

\* C21, witness: a flow that went through the watch and the hold delay and
\* was rejected in Selling
C21_Witness ==
    \E c \in Calls :
      /\ calls[c].entry = "buyAndSellFlow"
      /\ calls[c].result = "rejected"
      /\ calls[c].phases = <<"buy", "receipt", "hold", "sell">>
      /\ calls[c].phase = "sell"

\* C21 reaches Failed from Idle and from Buying too
C21_FailedInIdle ==
    \E c \in Calls :
      /\ calls[c].entry = "buyAndSellFlow" /\ calls[c].result = "rejected"
      /\ calls[c].phases = << >>

C21_FailedInBuying ==
    \E c \in Calls :
      /\ calls[c].entry = "buyAndSellFlow" /\ calls[c].result = "rejected"
      /\ calls[c].phases = <<"buy">>

\* C21 (as stated), for Holding: while the flow is in the hold delay, a step
\* that rejects it is possible.
C21_FailedReachableFromHolding ==
    \A c \in Calls :
      (calls[c].entry = "buyAndSellFlow" /\ calls[c].phase = "hold") =>
        ENABLED (HoldDone(c) /\ calls'[c].result = "rejected")

\* C22: the steps of a flow are sequential: it leaves Buying only on a buy
\* transaction that landed without error, leaves AwaitingReceipt only when
\* the watcher has completed, enters Selling only when the hold delay ends,
\* and reads the balance for the sell, requests a sell quote or broadcasts a
\* sell transaction only in Selling.
C22_SellOnlyAfterBuyWatchAndHold ==
    [][\A c \in Calls :
         calls[c].entry = "buyAndSellFlow" =>
           /\ (calls'[c].phase = "receipt" /\ calls[c].phase # "receipt") =>
                /\ calls[c].phase = "buy"
                /\ tx[c].status = "ok"
                /\ calls[c].sent = 1
           /\ (calls'[c].phase = "hold" /\ calls[c].phase # "hold") =>
                /\ calls[c].phase = "receipt"
                /\ \/ calls'[c].attempts = calls'[c].retries
                   \/ calls'[c].currentBalance # calls'[c].initialBalance
           /\ (calls'[c].phase = "sell" /\ calls[c].phase # "sell") =>
                calls[c].phase = "hold" /\ calls[c].pc = "hold"
           /\ \/ calls'[c].op = "safeSellAndClose"
              \/ calls'[c].pc \in {"sell_balance", "sell_decimals", "sell_quote"}
              \/ tx'[c].kind = "sell"
              => /\ calls'[c].phase = "sell"
                 /\ calls'[c].phases = <<"buy", "receipt", "hold", "sell">>
                 /\ calls'[c].returned >= 1]_vars

\* C22, witness: the flow has broadcast its sell transaction
C22_Witness ==
    \E c \in Calls :
      /\ calls[c].entry = "buyAndSellFlow"
      /\ calls[c].phases = <<"buy", "receipt", "hold", "sell">>
      /\ tx[c].kind = "sell" /\ tx[c].status = "pending"
      /\ calls[c].returned = 1

\* C23: in the buy phase of a flow a buy transaction is broadcast only when
\* the buy transaction broadcast before it, if any, can no longer land: it
\* executed with an error, or the block height has passed its
\* lastValidBlockHeight.
C23_RebroadcastOnlyWhenDead ==
    [][\A c \in Calls :
         (/\ calls[c].entry = "buyAndSellFlow"
          /\ calls[c].phase = "buy"
          /\ tx'[c] # tx[c]
          /\ tx'[c].kind = "buy") =>
           \/ tx[c].status \in {"none", "err"}
           \/ tx[c].status = "pending" /\ height > tx[c].lastValid]_vars

\* C24: once sendRawTransaction has succeeded, the submitter ends only by
\* returning a response or null: executeSwap then either returns, or fails
\* with "Transaction not confirmed" or "Transaction failed", and never with
\* the error of a ledger read.
C24_NoRaiseAfterBroadcast ==
    [][\A c \in Calls :
         (/\ calls[c].entry = "executeSwapSafely"
          /\ calls[c].pc \in ({"height0"} \cup PollPcs)
          /\ calls'[c].pc \notin ({"height0"} \cup PollPcs)) =>
           \/ calls'[c].result = "resolved" /\ calls'[c].transactionResponse = "ok"
           \/ /\ calls'[c].transactionResponse = "null"
              /\ calls'[c].sLastError = ErrNotConfirmed
           \/ /\ calls'[c].transactionResponse = "err"
              /\ calls'[c].sLastError = ErrTxFailed]_vars

\* C25: waitForBalanceChange returns with attempts left only when the
\* balance on the ledger differs from the one that was there at the first
\* read.
C25_EarlyReturnOnlyOnRealChange ==
    [][\A c \in Calls :
         (/\ calls[c].entry = "waitForBalanceChange"
          /\ calls[c].pc = "bal_poll"
          /\ calls'[c].result = "resolved"
          /\ calls'[c].attempts < calls'[c].retries) =>
           bal[c] # calls[c].initialLedger]_vars

\* C26: inside checkAndBuy the flow runs (a phase entered, a buy amount
\* quoted, a transaction broadcast) only after checkTokenAvailability
\* returned true; after it returned false checkAndBuy is over and has made no
\* trading request. While the probe runs nothing of the flow has happened.
C26_FlowGatedOnProbe ==
    \A c \in Calls :
      calls[c].entry = "checkAndBuy" =>
        /\ \/ calls[c].phases # << >>
           \/ calls[c].buyAmts # {}
           \/ calls[c].op # "none"
           \/ tx[c] # NoTx
           => calls[c].value = "true"
        /\ calls[c].value = "false" =>
             calls[c].pc = "done" /\ calls[c].result = "resolved"
        /\ calls[c].pc \in {"probe_quote", "probe_delay"} =>
             calls[c].value = "none"
        /\ calls[c].result # "rejected"

\* C26, witness: the probe's first request failed, a later one found a
\* route, and the flow that followed has broadcast its buy transaction
C26_Witness ==
    \E c \in Calls :
      /\ calls[c].entry = "checkAndBuy"
      /\ calls[c].value = "true"
      /\ calls[c].phase = "buy"
      /\ tx[c].status = "pending" /\ tx[c].kind = "buy"

\* C26: a probe that returned false ended checkAndBuy
C26_Skipped ==
    \E c \in Calls :
      /\ calls[c].entry = "checkAndBuy"
      /\ calls[c].value = "false" /\ calls[c].result = "resolved"
      /\ tx[c] = NoTx

\* C27: every attempt of executeSwapSafely starts with getSwapResponse, and
\* the swap response that is simulated and broadcast, with its
\* lastValidBlockHeight, is the one obtained in the same attempt.
C27_SwapResponsePerAttempt ==
    [][\A c \in Calls :
         calls[c].entry = "executeSwapSafely" =>
           /\ (calls'[c].sAttempt # calls[c].sAttempt /\ calls'[c].pc # "done")
                => calls'[c].pc = "swap_post"
           /\ calls'[c].pc \in ({"simulate", "exec_simulate"} \cup SubmitPcs)
                => /\ calls'[c].sAttempt >= 1
                   /\ calls'[c].respAttempt = calls'[c].sAttempt
           /\ (tx'[c] # tx[c] /\ tx'[c].status = "pending")
                => /\ calls[c].respAttempt = calls[c].sAttempt
                   /\ tx'[c].lastValid = calls[c].lvbh]_vars

\* C27, witness: the second attempt broadcast a transaction built from the
\* swap response it requested, the first attempt having had its own
C27_Witness ==
    \E c \in Calls :
      /\ calls[c].entry = "executeSwapSafely"
      /\ calls[c].sAttempt = 2 /\ calls[c].respAttempt = 2
      /\ calls[c].pc = "height0"
      /\ calls[c].sLastError \in {ErrNotConfirmed, ErrTxFailed, ErrSimulation}
      /\ tx[c].status = "pending" /\ tx[c].lastValid = calls[c].lvbh

\* C28: the submitter returns null only from the height check of an
\* iteration that read a block height above lastValidBlockHeight, or once
\* the timeout has elapsed. A height equal to lastValidBlockHeight lets the
\* loop go on to its wait, and an iteration whose getTransaction found the
\* transaction returns it, whatever the block height.
C28_NullOnlyOnExpiryOrTimeout ==
    [][\A c \in Calls :
         (/\ calls[c].entry = "executeSwapSafely"
          /\ calls[c].pc \in ({"height0"} \cup PollPcs)
          /\ calls'[c] # calls[c]) =>
           /\ (/\ calls'[c].pc \notin ({"height0"} \cup PollPcs)
               /\ calls'[c].transactionResponse = "null"
               /\ calls'[c].sLastError = ErrNotConfirmed) =>
                \/ /\ calls[c].pc = "get_height"
                   /\ calls'[c].currentBlockHeight = height
                   /\ height > calls[c].lvbh
                \/ calls'[c].elapsed >= TimeoutIn
           /\ (/\ calls[c].pc = "get_height"
               /\ calls'[c].currentBlockHeight = height
               /\ height = calls[c].lvbh
               /\ calls'[c].pc # "catch_wait") => calls'[c].pc = "wait"
           /\ (/\ calls[c].pc = "get_tx"
               /\ calls'[c].pc \notin PollPcs) =>
                /\ calls'[c].transactionResponse = tx[c].status
                /\ tx[c].status \in {"ok", "err"}]_vars

\* C28, witness: an iteration at a height not above lastValidBlockHeight
\* went on to wait, and the next one read a greater height and returned null
C28_Witness ==
    \E c \in Calls :
      /\ calls[c].entry = "executeSwapSafely"
      /\ calls[c].pc = "swap_delay"
      /\ calls[c].sLastError = ErrNotConfirmed
      /\ calls[c].transactionResponse = "null"
      /\ calls[c].currentBlockHeight = calls[c].lvbh + 1
      /\ calls[c].elapsed = PollInterval

\* C29: when an invocation of the operation succeeds, withRetry resolves in
\* that step with that invocation's result; it has then invoked the
\* operation once more than it failed, at most maxRetries times, and waited
\* once per failure; the resolved call invokes and waits no more.
C29_StopsAtFirstSuccess ==
    [][\A c \in Calls :
         calls[c].entry = "withRetry" =>
           /\ (/\ calls[c].pc = "retry_op"
               /\ calls'[c].opResult # calls[c].opResult) =>
                /\ calls'[c].result = "resolved"
                /\ calls'[c].value = calls'[c].opResult
                /\ calls'[c].rCalls = calls[c].rCalls
                /\ calls'[c].rWaits = calls[c].rWaits
           /\ calls'[c].result = "resolved" =>
                /\ calls'[c].rCalls = Len(calls'[c].opErrors) + 1
                /\ calls'[c].rCalls <= calls'[c].rMax
                /\ Len(calls'[c].rWaits) = Len(calls'[c].opErrors)
                /\ calls'[c].pc = "done"
           /\ calls[c].result = "resolved" => calls'[c] = calls[c]]_vars

\* C29, witness: the third of four allowed invocations succeeded, after two
\* failures and two waits
C29_Witness ==
    \E c \in Calls :
      /\ calls[c].entry = "withRetry"
      /\ calls[c].result = "resolved"
      /\ calls[c].rMax = 4 /\ calls[c].rInit = 1000 /\ calls[c].rExp
      /\ calls[c].rCalls = 3
      /\ calls[c].opErrors = <<"E1", "E2">>
      /\ calls[c].rWaits = <<1000, 2000>>
      /\ calls[c].value = "R2"

(* C30: what is left of each loop. Every step of a call uses up some of it. *)

\* swap.ts:271, trader.ts:283-289: no executeSwapSafely call is allowed more
\* attempts, no withRetry call more, than these
MaxInner == Max(SwapMaxRetries, SellSwapMaxRetries)
MaxOuter == Max(BuyMaxRetries, SellMaxRetries)

\* transactionSender.ts:62-88: the polls left before the timeout, and the
\* place in the iteration (getTransaction, getBlockHeight, wait)
PollLeft(s) ==
    ((TimeoutIn - s.elapsed) \div PollInterval) * 3
      + (CASE s.pc = "get_tx" -> 3 [] s.pc = "get_height" -> 2 [] OTHER -> 1)

PollMost == (TimeoutIn \div PollInterval) * 3 + 3

\* swap.ts:193-219: the place in an attempt of executeSwapSafely
AttemptLeft(s) ==
    CASE s.pc = "swap_post" -> PollMost + 5
      [] s.pc = "simulate" -> PollMost + 4
      [] s.pc = "exec_simulate" -> PollMost + 3
      [] s.pc = "send" -> PollMost + 2
      [] s.pc = "height0" -> PollMost + 1
      [] s.pc \in PollPcs -> PollLeft(s)
      [] OTHER -> 0

AttemptMost == PollMost + 6

\* the attempts executeSwapSafely has left, then the place in the attempt
SwapLeft(s) == (s.sMax - s.sAttempt) * AttemptMost + AttemptLeft(s)

SwapMost == (MaxInner + 1) * AttemptMost

\* the place in buy, sell or safeSellAndClose; 0 once it has thrown
OpLeft(s) ==
    CASE s.pc \in SwapPcs -> SwapLeft(s)
      [] s.pc \in {"buy_quote", "sell_quote", "msell_quote"} -> SwapMost
      [] s.pc \in {"sell_decimals", "msell_decimals"} -> SwapMost + 1
      [] s.pc = "sell_balance" -> SwapMost + 2
      [] OTHER -> 0

OpMost == SwapMost + 3

\* trader.ts:155-176: the attempts withRetry has left, then the place in fn()
RetryLeft(s) == (s.rMax - s.rAttempt) * OpMost + OpLeft(s)

\* tokens.ts:107-114: the samples the watcher has left
WatchLeft(s) ==
    CASE s.pc = "bal_initial" -> 2 * s.retries + 2
      [] s.pc = "bal_delay" -> 2 * (s.retries - s.attempts) + 1
      [] s.pc = "bal_poll" -> 2 * (s.retries - s.attempts)
      [] OTHER -> 0

PhaseMost == (MaxOuter + 1) * OpMost

\* trader.ts:233-300: the phases the flow has left, then the place in the
\* phase; buy and sell called on their own are one operation
CallLeft(s) ==
    CASE s.pc = "done" -> 0
      [] s.pc = "idle" -> IF s.entry = "none" THEN 0 ELSE 5 * PhaseMost
      [] s.phase = "buy" -> 4 * PhaseMost + RetryLeft(s)
      [] s.phase = "receipt" -> 3 * PhaseMost + WatchLeft(s)
      [] s.phase = "hold" -> 2 * PhaseMost
      [] s.phase = "sell" -> PhaseMost + RetryLeft(s)
      [] OTHER -> OpLeft(s)

\* the blocks still to come and the transactions still to land
LedgerLeft ==
    (MaxHeight - height) + Cardinality({c \in Calls : tx[c].status = "pending"})

LedgerMost == MaxHeight + Cardinality(Calls) + 1

\* C30: every step uses up some of what is left of the loops of
\* buyAndSellFlow (outer retry, inner swap retry, confirmation polling,
\* balance watch), none of which is ever negative, and while a call is
\* pending some step can be taken: when every collaborator call settles
\* and time advances, the flow ends, resolved or rejected.
C30_FlowTerminates ==
    /\ [][ /\ \A c \in Calls :
               /\ CallLeft(calls'[c]) <= CallLeft(calls[c])
               /\ calls'[c] # calls[c] => CallLeft(calls'[c]) < CallLeft(calls[c])
               /\ OpLeft(calls'[c]) >= 0 /\ WatchLeft(calls'[c]) >= 0
               /\ RetryLeft(calls'[c]) >= 0 /\ CallLeft(calls'[c]) >= 0
           /\ calls' = calls => LedgerLeft' < LedgerLeft
           /\ LedgerLeft' >= 0 /\ LedgerLeft' < LedgerMost ]_vars
    /\ [](\A c \in Calls :
            (calls[c].entry # "none" /\ calls[c].result = "pending")
              => ENABLED Next)

\* C30, witness: a flow that ended after using up the attempts of the sell
C30_Witness ==
    \E c \in Calls :
      /\ calls[c].entry = "buyAndSellFlow"
      /\ calls[c].result = "rejected"
      /\ calls[c].phase = "sell"
      /\ calls[c].rAttempt = SellMaxRetries
      /\ calls[c].rLastError = ErrNotConfirmed
      /\ CallLeft(calls[c]) = 0

----------------------------------------------------------------------------
\* C31: getTokenDecimals returns the decimals of the mint whenever the mint
\* info was read and parsed, for every decimals value from 0 up, so that
\* balance * 10^decimals (swap.ts:251) is the balance in the mint's base
\* units; it returns the fallback 9 for a token mint only when the mint
\* info could not be read or parsed.
C31_DecimalsAreOnChain ==
    \A c \in Calls :
      (calls[c].entry = "getTokenDecimals" /\ calls[c].result = "resolved") =>
        /\ (calls[c].mintIsSol \/ calls[c].info = "parsed") =>
             /\ calls[c].decimals = calls[c].mintDecimals
             /\ \A b \in 1..MaxBal :
                  SellAmount(b, calls[c].decimals)
                    = b * Pow(10, calls[c].mintDecimals)
        /\ (/\ ~calls[c].mintIsSol
            /\ calls[c].decimals = 9
            /\ calls[c].mintDecimals # 9) => calls[c].info # "parsed"

====
